---- MODULE Spec2Model ----
(***************************************************************************)
(* Verification model of the autonomous-food-system backend:               *)
(*   - CookingSession (routes/cooking.js): the session state machine,      *)
(*     step timing and sensor log;                                         *)
(*   - ConsumptionProfile (models/ConsumptionProfile.js) and               *)
(*     PrecisionDistributionService (services/...): consumption records,   *)
(*     rolling waste window, portion adjustment with user consultation.    *)
(*   - rate limiter (middleware/rateLimiter.js): the fixed-window counter   *)
(*     of createRateLimiter, the limiters of the module and their store;   *)
(*   - Recipe (models/Recipe.js): scaleServings, in binary64 arithmetic;   *)
(*   - GrowingModule (models/Recipe.js, routes/growing.js): its cycles;    *)
(*   - HardwareIntegrationService (services/...): the devices of one       *)
(*     module, sensor polling, robot tasks.                                *)
(* Times are abstract clock ticks (Date.now()); portions and percentages   *)
(* are exact integers (mg and 1/100 %).                                    *)
(***************************************************************************)
EXTENDS Integers, Sequences, FiniteSets, TLC

\* ------------------------------------------------------------------ bounds
MaxSteps == 2      \* longest recipe (number of instructions)
MaxTime == 2       \* the clock runs from 1 to MaxTime
MaxSensor == 1     \* most sensor readings kept in one session
MaxErrors == 2     \* most entries of the session's error log
MaxRecords == 5    \* most consumption records of the profile
MaxPending == 1    \* most adjustments awaiting the answer of consultUser
MaxApplied == 2    \* most applied portion adjustments
MaxContainers == 1 \* most reusable containers assigned
MaxHistory == 33   \* most consumption records of a long-running profile
MaxVaried == 5     \* its first records are of any kind, the later ones are alike
MaxClock == 10     \* the rate limiter's clock runs for MaxClock minutes
MaxCount == 4      \* highest count of the limiter under test
MaxAdmitted == 4   \* most requests the limiter under test lets through
MaxRequests == 11  \* highest count reached through the main rate limiter
MaxScalings == 3   \* most scaleServings calls that scale one recipe
MaxCycles == 5     \* most growing cycles one module starts
MaxReturns == 101  \* most returns of containers processed
MaxTimers == 2     \* most timeouts pending at a time
MaxQueue == 2      \* longest task queue of a robot
MaxInits == 3      \* most initializeModule calls that start a polling timer
MaxPolls == 6      \* most polls of the sensors of the module

\* --------------------------------------------------------------- constants
Null == -1                           \* JS null / undefined for a time or a duration
Undefined == "<undefined>"           \* an omitted request field
MsPerMinute == 60000                 \* conversion factor of expectedDuration

SensorTypes == {"temperature"}
SensorValues == {75}
ReasonInputs == {Undefined, "burnt"} \* req.body.reason of the abort route

\* ConsumptionProfile / PrecisionDistributionService
WasteWindow == 30                    \* "Keep only last 30 records"
MinDataPoints == 5                   \* "Need at least 5 data points"
AdjustmentThresholdBp == 1500        \* adjustmentThreshold 0.15, times 100, in 1/100 %
LearningRatePct == 10                \* learningRate 0.1
HalfPct == 50                        \* "Never reduce by more than 50%"
ApprovalLimitPct == 30               \* consultUser approves reductions below 30 %
DefaultPortion == 100000             \* "|| 100", default 100 g, in mg
ScheduleDays == 7                    \* updateDistributionSchedule: 7 days ahead
SmallMax == 50                       \* amount <= 50 g: small container
MediumMax == 200                     \* amount > 200 g: large container
MgPerGram == 1000
FullBp == 10000                      \* 100 %, in 1/100 %

ProfileUser == "user_001"            \* the user that has a consumption profile
Users == {ProfileUser, "user_404"}   \* the user ids of the requests
\* supermarketData.monthlyPatterns of importSupermarketData: g per month
MonthlyPatterns == {[i \in {"lettuce"} |-> 1500]}
DaysPerMonth == 30                   \* dailyAmount = monthlyAmount / 30
Ingredients == {"lettuce", "herbs"}
\* the consumption events: <<ingredient, portionServed, portionConsumed>> (g),
\* 30 % waste of lettuce and 10 % waste of herbs
Consumptions == {<<"lettuce", 100, 70>>, <<"herbs", 100, 90>>}
\* the consumption events of a long-running profile: 30 % and 10 % waste of lettuce,
\* 10 % waste of herbs; after the first MaxVaried records only SteadyConsumption
ProfileConsumptions == {<<"lettuce", 100, 70>>, <<"lettuce", 100, 90>>, <<"herbs", 50, 45>>}
SteadyConsumption == <<"lettuce", 100, 90>>
SuggestPortions == {0, 50000}        \* newPortion before a suggestion is asked (mg)
NewPortions == {50000}               \* newPortion of the adjust route (mg)
MaxAdjustments == {20, 40}           \* maxAdjustmentPerCycle 0.20 (default) or 0.40
LearningRates == {LearningRatePct, 100, 200} \* learningRate 0.1 (default), 1.0 or 2.0
\* averageWaste given to suggestPortionAdjustment: 16 %, 30 %, 100 %, in 1/100 %
AverageWastes == {1600, 3000, 10000}

\* rate limiter
MsPerSecond == 1000
CleanupInterval == 5 * MsPerMinute   \* setInterval(..., 5 * 60 * 1000)
ClientIPs == {"10.0.0.1"}
\* the requests of the client: method, path, the parts path.includes() finds,
\* req.query.search, a multipart content type, the internal API key
Request(method, path, parts, internal) ==
  [method |-> method, path |-> path, parts |-> parts, search |-> FALSE,
   multipart |-> FALSE, internal |-> internal]
Requests ==
  {Request("GET", "/api/recipes", {"/recipes"}, FALSE),
   Request("POST", "/api/recipes", {"/recipes"}, FALSE),
   Request("POST", "/api/cooking/start", {"/cooking"}, FALSE),
   Request("GET", "/api/recipes/search", {"/recipes", "/search"}, FALSE),
   Request("POST", "/api/recipes/1/optimize", {"/recipes", "/optimize"}, FALSE),
   Request("GET", "/api/recipes", {"/recipes"}, TRUE)}
\* the options of the limiter under test: the defaults of createRateLimiter, 2
\* requests per 2 minutes, 1 request per 3 minutes
LimiterOptions ==
  {[windowMs |-> 15 * MsPerMinute, max |-> 100], [windowMs |-> 2 * MsPerMinute, max |-> 2],
   [windowMs |-> 3 * MsPerMinute, max |-> 1]}

Min(a, b) == IF a <= b THEN a ELSE b
Max(a, b) == IF a >= b THEN a ELSE b

\* instruction.timing (minutes) of the i-th instruction; 0 is falsy in JS
TimingOf(i) == IF i % 2 = 1 THEN 5 ELSE 0

\* the recipes (instruction lists) of at most MaxSteps instructions, empty one included
Recipes == {[i \in 1..n |-> TimingOf(i)] : n \in 0..MaxSteps}

VARIABLES
  \* ---- CookingSession fields
  instructions,   \* recipe.instructions, as the sequence of their timings
  status,         \* "initialized" | "in_progress" | "paused" | "completed" | "aborted"
  currentStep,
  startTime, endTime, pausedTime,
  stepTimings,    \* stepTimings[i+1] is the JS stepTimings[i]
  sensorData,
  errors,
  \* ---- environment and observation of the calls
  now,            \* Date.now()
  lastCall,       \* the call the last step made, and what it returned or threw
  advances,       \* number of nextStep calls that returned without throwing
  completions,    \* number of times complete() ran
  \* ---- ConsumptionProfile fields (the profile of ProfileUser)
  consultationRequired,   \* adjustmentSettings.consultationRequired
  maxAdjustmentPerCycle,  \* adjustmentSettings.maxAdjustmentPerCycle, in %
  learningRate,           \* adjustmentSettings.learningRate, in %
  portionHistory,
  currentPortions,        \* ingredient -> portion (mg), only the ingredients set
  wasteTracking,          \* ingredient -> waste percentages (1/100 %), newest last
  \* ---- PrecisionDistributionService fields
  consumptionProfiles,    \* the user ids that have a consumption profile
  pendingAdjustments,     \* handleAutomaticAdjustment calls suspended at their await
  distributionSchedule,   \* the schedule stored for ProfileUser
  reusableContainers,
  \* ---- observation
  appliedLog,             \* the 'portion_adjustment_applied' events logged
  distCall,               \* the call the last step made, and its outcome
  \* ---- rate limiter
  rateLimitStore,         \* key -> [count, resetTime, firstRequest]
  rateClock,              \* Date.now() of the middleware, in ms
  limiter,                \* the options of the limiter under test
  rateCall,               \* the request the last step handled, and the answer
  admitted,               \* the requests the limiter under test passed on
  usedClasses,            \* the classes of endpoints the client has sent requests to
  uncleanedStore,         \* the store as it would be, had cleanup never run
  \* ---- Recipe
  recipe,                 \* servings, ingredients and nutrition of one Recipe
  recipeCall,             \* the scaleServings call the last step made, and its outcome
  scaled,                 \* the recipe as constructed and after each scaling
  \* ---- GrowingModule
  growingModule,          \* activeCycles and maxConcurrentCycles of one module
  growCall,               \* the call the last step made on the module, and its outcome
  \* ---- PrecisionDistributionService: the return of containers
  containersReused,       \* wasteReductionMetrics.containersReused
  cleaningTimers,         \* the container ids of the pending cleaning timeouts, in order
  \* ---- HardwareIntegrationService
  simulationMode,         \* process.env.ENABLE_SENSOR_SIMULATION === 'true'
  connectedDevices,       \* moduleId -> [sensors, actuators, robots, status]
  sensorReadings,         \* moduleId -> [readings, timestamp]
  activePolling,          \* moduleId -> the interval timer that polls the module
  intervals,              \* the interval timers set and not cleared
  timersSet,              \* number of setInterval calls made: the last timer's id
  timeouts,               \* number of pending timeouts of the robot simulators
  polls,                  \* number of pollAllSensors calls made: the time of a reading
  readLog,                \* sensor id -> the outcomes of the reads of the sensor object
  hwCall                  \* the call the last step made on the service, and its outcome

sessionVars == <<instructions, status, currentStep, startTime, endTime, pausedTime,
                 stepTimings, sensorData, errors, now, lastCall, advances, completions>>

\* what no call changes: the profiles there are and their adjustmentSettings
settings == <<consumptionProfiles, consultationRequired, maxAdjustmentPerCycle, learningRate>>

distVars == <<settings, portionHistory, currentPortions, wasteTracking, pendingAdjustments,
              distributionSchedule, reusableContainers, appliedLog, distCall>>

rateVars == <<rateLimitStore, rateClock, limiter, rateCall, admitted, usedClasses,
              uncleanedStore>>

recipeVars == <<recipe, recipeCall, scaled>>

\* the components beside the session, the distribution service and the rate limiter
growVars == <<growingModule, growCall>>

returnVars == <<containersReused, cleaningTimers>>

hardwareVars == <<simulationMode, connectedDevices, sensorReadings, activePolling, intervals,
                  timersSet, timeouts, polls, readLog, hwCall>>

otherVars == <<recipeVars, growVars, returnVars, hardwareVars>>

vars == <<sessionVars, distVars, rateVars, otherVars>>

\* ------------------------------------------------------- CookingSession
Terminal == {"completed", "aborted"}

\* what a call returned (kind, step, timings) or threw (error)
Returned(op, args, kind, step, timings) ==
  [op |-> op, args |-> args, error |-> "none", kind |-> kind, step |-> step,
   timings |-> timings]
Threw(op) ==
  [op |-> op, args |-> <<>>, error |-> "CookingProcessError", kind |-> "none", step |-> 0,
   timings |-> <<>>]
\* no call was made by the last step
NoCall == Returned("none", <<>>, "void", 0, <<>>)

\* constructor: status 'initialized', currentStep 0, empty logs
InitSession ==
  /\ instructions \in Recipes
  /\ status = "initialized"
  /\ currentStep = 0
  /\ startTime = Null
  /\ endTime = Null
  /\ pausedTime = 0
  /\ stepTimings = <<>>
  /\ sensorData = <<>>
  /\ errors = <<>>
  /\ now = 1
  /\ lastCall = NoCall
  /\ advances = 0
  /\ completions = 0

\* the guards of the transitions
CanStart(s) == s = "initialized"
\* mutant: pause also accepted before the session was started
CanPause_orInitialized(s) == s \in {"in_progress", "initialized"}
CanPause(s) == s = "in_progress"
CanResume(s) == s = "paused"
\* mutant: the status check of nextStep lets a paused session advance
CanAdvance_orPaused(s) == s \in {"in_progress", "paused"}
\* mutant: the status check of nextStep lets a completed session advance
CanAdvance_orCompleted(s) == s \in {"in_progress", "completed"}
CanAdvance(s) == s = "in_progress"

\* time passes between two calls
Tick ==
  /\ now < MaxTime
  /\ now' = now + 1
  /\ lastCall' = NoCall
  /\ UNCHANGED <<instructions, status, currentStep, startTime, endTime, pausedTime,
                 stepTimings, sensorData, errors, advances, completions>>

start ==
  IF ~CanStart(status)
  THEN /\ lastCall' = Threw("start")
       /\ UNCHANGED <<instructions, status, currentStep, startTime, endTime, pausedTime,
                      stepTimings, sensorData, errors, now, advances, completions>>
  ELSE /\ status' = "in_progress"
       /\ startTime' = now
       /\ lastCall' = Returned("start", <<>>, "void", 0, <<>>)
       /\ UNCHANGED <<instructions, currentStep, endTime, pausedTime,
                      stepTimings, sensorData, errors, now, advances, completions>>

pause ==
  IF ~CanPause(status)
  THEN /\ lastCall' = Threw("pause")
       /\ UNCHANGED <<instructions, status, currentStep, startTime, endTime, pausedTime,
                      stepTimings, sensorData, errors, now, advances, completions>>
  ELSE /\ status' = "paused"
       /\ pausedTime' = now
       /\ lastCall' = Returned("pause", <<>>, "void", 0, <<>>)
       /\ UNCHANGED <<instructions, currentStep, startTime, endTime,
                      stepTimings, sensorData, errors, now, advances, completions>>

resume ==
  IF ~CanResume(status)
  THEN /\ lastCall' = Threw("resume")
       /\ UNCHANGED <<instructions, status, currentStep, startTime, endTime, pausedTime,
                      stepTimings, sensorData, errors, now, advances, completions>>
  ELSE /\ status' = "in_progress"
       /\ pausedTime' = 0
       /\ lastCall' = Returned("resume", <<>>, "void", 0, <<>>)
       /\ UNCHANGED <<instructions, currentStep, startTime, endTime,
                      stepTimings, sensorData, errors, now, advances, completions>>

\* timing * 60000 || null
ExpectedDuration(timing) ==
  IF timing * MsPerMinute = 0 THEN Null ELSE timing * MsPerMinute

\* stepTimings[previousStepIndex]?.startTime || this.startTime
PreviousStart(timings, step, sessionStart) ==
  IF step \in DOMAIN timings /\ timings[step].startTime # 0
  THEN timings[step].startTime
  ELSE sessionStart

\* mutant: the timing of the previous step is left open
ClosePreviousStep_open(timings, step, sessionStart, t) == timings

\* the timing of the previous step gets its end time and actual duration
ClosePreviousStep(timings, step, sessionStart, t) ==
  IF step > 0
  THEN [timings EXCEPT ![step] =
          [@ EXCEPT !.endTime = t,
                    !.actualDuration = t - PreviousStart(timings, step, sessionStart)]]
  ELSE timings

\* mutant: completion decided one step early (on the new step index)
AllStepsCompleted_early(step, n) == step + 1 >= n
\* "Check if we've completed all steps"
AllStepsCompleted(step, n) == step >= n

\* mutant: the step index skips a step
NextStepIndex_skip(step) == step + 2
\* this.currentStep++
NextStepIndex(step) == step + 1

\* mutant: the last step is already reported as "all steps completed"
getCurrentStepInfo_lastIsDone(step, n) ==
  IF step = 0 THEN [kind |-> "ready", step |-> 0]
  ELSE IF step >= n THEN [kind |-> "allDone", step |-> step]
  ELSE [kind |-> "stepInfo", step |-> step]
\* what getCurrentStepInfo returns for a step index
getCurrentStepInfo(step, n) ==
  IF step = 0 THEN [kind |-> "ready", step |-> 0]
  ELSE IF step > n THEN [kind |-> "allDone", step |-> step]
  ELSE [kind |-> "stepInfo", step |-> step]

\* complete(), entered from nextStep with the closed timings
complete(timings) ==
  /\ status' = "completed"
  /\ endTime' = now
  /\ stepTimings' = timings
  /\ completions' = completions + 1
  /\ advances' = advances + 1
  /\ lastCall' = Returned("nextStep", <<>>, "completed", currentStep, timings)
  /\ UNCHANGED <<instructions, currentStep, startTime, pausedTime, sensorData, errors, now>>

nextStep ==
  IF ~CanAdvance(status)
  THEN /\ lastCall' = Threw("nextStep")
       /\ UNCHANGED <<instructions, status, currentStep, startTime, endTime, pausedTime,
                      stepTimings, sensorData, errors, now, advances, completions>>
  ELSE LET closed == ClosePreviousStep(stepTimings, currentStep, startTime, now)
       IN IF AllStepsCompleted(currentStep, Len(instructions))
          THEN complete(closed)
          ELSE LET next == NextStepIndex(currentStep)
                   info == getCurrentStepInfo(next, Len(instructions))
               IN /\ stepTimings' = Append(closed,
                        [stepIndex |-> currentStep,
                         startTime |-> now,
                         expectedDuration |-> ExpectedDuration(instructions[currentStep + 1]),
                         endTime |-> Null,
                         actualDuration |-> Null])
                  /\ currentStep' = next
                  /\ advances' = advances + 1
                  /\ lastCall' = Returned("nextStep", <<>>, info.kind, info.step, <<>>)
                  /\ UNCHANGED <<instructions, status, startTime, endTime, pausedTime,
                                 sensorData, errors, now, completions>>

\* reason = 'User cancelled' when the caller passes none
AbortReason(r) == IF r = Undefined THEN "User cancelled" ELSE r

\* mutant: the entry always carries the default message
AbortEntry_defaultMessage(reason, t) ==
  [type |-> "session_aborted", message |-> "User cancelled", timestamp |-> t]
\* the entry abort() pushes on this.errors
AbortEntry(reason, t) ==
  [type |-> "session_aborted", message |-> reason, timestamp |-> t]

\* abort() has no guard on the status
abort(r) ==
  /\ Len(errors) < MaxErrors
  /\ status' = "aborted"
  /\ endTime' = now
  /\ errors' = Append(errors, AbortEntry(AbortReason(r), now))
  /\ lastCall' = Returned("abort", <<r>>, "void", 0, <<>>)
  /\ UNCHANGED <<instructions, currentStep, startTime, pausedTime,
                 stepTimings, sensorData, now, advances, completions>>

\* mutant: the reading is tagged with the first step instead of the current one
SensorEntry_untagged(type, value, t, step) ==
  [sensorType |-> type, value |-> value, timestamp |-> t, stepIndex |-> 0]
\* the entry addSensorData() pushes on this.sensorData
SensorEntry(type, value, t, step) ==
  [sensorType |-> type, value |-> value, timestamp |-> t, stepIndex |-> step]

\* addSensorData(); the automation hook only logs
addSensorData(type, value) ==
  /\ Len(sensorData) < MaxSensor
  /\ sensorData' = Append(sensorData, SensorEntry(type, value, now, currentStep))
  /\ lastCall' = Returned("addSensorData", <<type, value>>, "void", 0, <<>>)
  /\ UNCHANGED <<instructions, status, currentStep, startTime, endTime, pausedTime,
                 stepTimings, errors, now, advances, completions>>

NextSession ==
  \/ Tick /\ UNCHANGED <<distVars, rateVars, otherVars>>
  \/ start /\ UNCHANGED <<distVars, rateVars, otherVars>>
  \/ pause /\ UNCHANGED <<distVars, rateVars, otherVars>>
  \/ resume /\ UNCHANGED <<distVars, rateVars, otherVars>>
  \/ nextStep /\ UNCHANGED <<distVars, rateVars, otherVars>>
  \/ \E r \in ReasonInputs : abort(r) /\ UNCHANGED <<distVars, rateVars, otherVars>>
  \/ \E ty \in SensorTypes, v \in SensorValues : addSensorData(ty, v)
       /\ UNCHANGED <<distVars, rateVars, otherVars>>

\* ------------------------------------------- ConsumptionProfile (model)
\* Portions are in mg, waste percentages in 1/100 %: with the inputs below every
\* product and quotient the code computes in floating point is an exact integer.
\* All consumption timestamps of the model fall on one day, so that
\* getDayOfWeekAdjustment is 1.0 and the recent averages cover the whole history.

EmptyMap == [x \in {} |-> 0]

\* Map.set(k, v)
Put(f, k, v) == [x \in DOMAIN f \cup {k} |-> IF x = k THEN v ELSE f[x]]

RECURSIVE SeqSum(_)
SeqSum(s) == IF s = <<>> THEN 0 ELSE Head(s) + SeqSum(Tail(s))

\* array.slice(-n)
LastN(s, n) == SubSeq(s, Max(1, Len(s) - n + 1), Len(s))

\* mutant: the waste in percent of a portion of 100 g, whatever was served
WastePercentage_ofHundred(served, consumed) == (served - consumed) * 100

\* ((portionServed - portionConsumed) / portionServed) * 100, in 1/100 %
WastePercentage(served, consumed) == ((served - consumed) * FullBp) \div served

\* the record recordConsumption builds
ConsumptionRecord(ing, served, consumed, t) ==
  [ingredient |-> ing, portionServed |-> served, portionConsumed |-> consumed,
   wasteAmount |-> served - consumed,
   wastePercentage |-> WastePercentage(served, consumed),
   timestamp |-> t]

\* mutant: the newest entry is dropped from a full window instead of the oldest
updateWasteTracking_evictsNewest(wt, ing, waste) ==
  LET old == IF ing \in DOMAIN wt THEN wt[ing] ELSE <<>>
  IN Put(wt, ing, IF Len(old) + 1 > WasteWindow THEN old ELSE Append(old, waste))

\* updateWasteTracking: push, then shift when longer than 30
updateWasteTracking(wt, ing, waste) ==
  LET pushed == Append(IF ing \in DOMAIN wt THEN wt[ing] ELSE <<>>, waste)
  IN Put(wt, ing, IF Len(pushed) > WasteWindow THEN Tail(pushed) ELSE pushed)

\* this.currentPortions.get(ingredient) || 100
CurrentOrDefault(portions, ing) ==
  IF ing \in DOMAIN portions /\ portions[ing] # 0 THEN portions[ing] ELSE DefaultPortion

\* Math.min(1 - wasteRatio * learningRate, 1 - maxAdjustmentPerCycle), in 1/10000
AdjustmentFactor(waste, rate, maxAdj) ==
  Min(FullBp - (waste * rate) \div 100, FullBp - maxAdj * 100)

\* mutant: the suggested portion without its floor of half the current portion
SuggestedPortion_unfloored(cur, factor) == (cur * factor) \div FullBp

\* Math.max(currentPortion * adjustmentFactor, currentPortion * 0.5)
SuggestedPortion(cur, factor) ==
  Max((cur * factor) \div FullBp, (cur * HalfPct) \div 100)

\* suggestPortionAdjustment: the adjustment it logs and returns
suggestPortionAdjustment(portions, ing, waste, rate, maxAdj, consult) ==
  LET cur == CurrentOrDefault(portions, ing)
      sug == SuggestedPortion(cur, AdjustmentFactor(waste, rate, maxAdj))
  IN [ingredient |-> ing, currentPortion |-> cur, suggestedPortion |-> sug,
      reduction |-> cur - sug, averageWaste |-> waste,
      requiresConsultation |-> consult]

\* checkForPortionAdjustment: the suggestions it makes (none or one)
checkForPortionAdjustment(wt, portions, ing, rate, maxAdj, consult) ==
  IF ing \notin DOMAIN wt \/ Len(wt[ing]) < MinDataPoints THEN <<>>
  ELSE LET recent == LastN(wt[ing], 5)
           averageWaste == SeqSum(recent) \div Len(recent)
       IN IF averageWaste > AdjustmentThresholdBp
          THEN <<suggestPortionAdjustment(portions, ing, averageWaste, rate, maxAdj,
                                          consult)>>
          ELSE <<>>

\* the message of the error applyPortionAdjustment throws
ConsultationRequiredError == "User consultation required for portion adjustment"

\* mutant: the consultation check tests the approval flag the wrong way round
NeedsConsultation_inverted(required, approved) == required /\ approved

\* mutant: the consultation check of applyPortionAdjustment is dropped
NeedsConsultation_never(required, approved) == FALSE

\* applyPortionAdjustment throws when consultationRequired && !userApproved
NeedsConsultation(required, approved) == required /\ ~approved

\* the 'portion_adjustment_applied' event of applyPortionAdjustment
AppliedEntry(ing, old, new, approved) ==
  [ingredient |-> ing, oldPortion |-> old, newPortion |-> new, userApproved |-> approved]

\* ---------------------------------- PrecisionDistributionService (model)
DistReturned(op, args, suggestions) ==
  [op |-> op, args |-> args, error |-> "none", suggestions |-> suggestions]
DistThrew(op, args, message) ==
  [op |-> op, args |-> args, error |-> message, suggestions |-> <<>>]
NoDistCall == DistReturned("none", <<>>, <<>>)

NoSchedule == [generated |-> FALSE, totalIngredients |-> EmptyMap, containers |-> <<>>]

\* mutant: every user id is taken to have a profile
HasProfile_any(profiles, user) == TRUE

\* `this.consumptionProfiles.get(userId)` is truthy
HasProfile(profiles, user) == user \in profiles

\* consultUser: the simulated response
consultUser(adjustment) ==
  [approved |-> adjustment.reduction * 100 < ApprovalLimitPct * adjustment.currentPortion]

\* Math.round of a portion, in g
RoundGrams(mg) == (2 * mg + MgPerGram) \div (2 * MgPerGram)

\* the ingredients of the daily distributions and their amount over the days
TotalIngredients(portions, days) ==
  [i \in {j \in DOMAIN portions : portions[j] > 0} |-> days * RoundGrams(portions[i])]

\* planContainerRequirements: the container size for an amount
ContainerType(amount) ==
  IF amount <= SmallMax THEN "small"
  ELSE IF amount > MediumMax THEN "large" ELSE "medium"

\* the order in which the ingredients of a schedule get their containers
RECURSIVE InOrder(_)
InOrder(S) == IF S = {} THEN <<>>
              ELSE LET i == CHOOSE x \in S : TRUE IN <<i>> \o InOrder(S \ {i})

\* assignReusableContainer: the container it registers
NewContainer(type, t) ==
  [type |-> type, status |-> "assigned", assignedAt |-> t, timesReused |-> 0]

\* the containers planContainerRequirements registers for a schedule
PlannedContainers(total, t) ==
  LET order == InOrder(DOMAIN total)
  IN [k \in 1..Len(order) |-> NewContainer(ContainerType(total[order[k]]), t)]

\* generateDistributionSchedule: the schedule it stores; containers are named by
\* their position in reusableContainers
GeneratedSchedule(portions, days, firstId) ==
  LET total == TotalIngredients(portions, days)
      order == InOrder(DOMAIN total)
  IN [generated |-> TRUE, totalIngredients |-> total,
      containers |-> [k \in 1..Len(order) |->
                        [ingredient |-> order[k], amount |-> total[order[k]],
                         containerType |-> ContainerType(total[order[k]]),
                         containerId |-> firstId + k]]]

\* createConsumptionProfile(ProfileUser, {adjustmentSettings}) on a new service
InitDistribution ==
  /\ consumptionProfiles = {ProfileUser}
  /\ consultationRequired \in BOOLEAN
  /\ maxAdjustmentPerCycle \in MaxAdjustments
  /\ learningRate \in LearningRates
  /\ portionHistory = <<>>
  /\ currentPortions = EmptyMap
  /\ wasteTracking = EmptyMap
  /\ pendingAdjustments = <<>>
  /\ distributionSchedule = NoSchedule
  /\ reusableContainers = <<>>
  /\ appliedLog = <<>>
  /\ distCall = NoDistCall

\* room in the bounded logs for one more applied adjustment
RoomToApply == Len(appliedLog) + Len(pendingAdjustments) < MaxApplied
RoomForSchedule(portions) ==
  Len(reusableContainers) + Cardinality(DOMAIN portions) <= MaxContainers

\* ConsumptionProfile.recordConsumption: the record is pushed on the history, the
\* waste window is updated and the need for an adjustment is checked
ProfileRecords(ing, served, consumed) ==
  /\ LET record == ConsumptionRecord(ing, served, consumed, now)
         tracked == updateWasteTracking(wasteTracking, ing, record.wastePercentage)
     IN /\ portionHistory' = Append(portionHistory, record)
        /\ wasteTracking' = tracked
        /\ distCall' = DistReturned("profile.recordConsumption", <<ing, served, consumed>>,
                          checkForPortionAdjustment(tracked, currentPortions, ing,
                                                    learningRate, maxAdjustmentPerCycle,
                                                    consultationRequired))
  /\ UNCHANGED <<settings, currentPortions,
                 pendingAdjustments, distributionSchedule, reusableContainers, appliedLog>>

\* ConsumptionProfile.recordConsumption called on the profile itself
profileRecordConsumption(ing, served, consumed) ==
  /\ Len(portionHistory) < MaxRecords
  /\ ProfileRecords(ing, served, consumed)

\* the same call on a long-running profile: one of its first, varied records
recordVaried(c) ==
  /\ Len(portionHistory) < Min(MaxVaried, MaxHistory)
  /\ ProfileRecords(c[1], c[2], c[3])

\* the same call on a long-running profile: one of its later records
recordSteady ==
  /\ Len(portionHistory) >= MaxVaried
  /\ Len(portionHistory) < MaxHistory
  /\ ProfileRecords(SteadyConsumption[1], SteadyConsumption[2], SteadyConsumption[3])

\* generateDistributionSchedule(userId, days)
generateDistributionSchedule(user, days) ==
  IF ~HasProfile(consumptionProfiles, user)
  THEN /\ distCall' = DistThrew("generateDistributionSchedule", <<user>>, "Profile not found")
       /\ UNCHANGED <<settings, portionHistory,
                      currentPortions, wasteTracking, pendingAdjustments,
                      distributionSchedule, reusableContainers, appliedLog>>
  ELSE /\ RoomForSchedule(currentPortions)
       /\ distributionSchedule' =
            GeneratedSchedule(currentPortions, days, Len(reusableContainers))
       /\ reusableContainers' = reusableContainers \o
            PlannedContainers(TotalIngredients(currentPortions, days), now)
       /\ distCall' = DistReturned("generateDistributionSchedule", <<user>>, <<>>)
       /\ UNCHANGED <<settings, portionHistory,
                      currentPortions, wasteTracking, pendingAdjustments, appliedLog>>

\* PrecisionDistributionService.recordConsumption, up to its return: the profile
\* records; when the record's waste exceeds the threshold handleAutomaticAdjustment
\* runs up to its await (consultation required) or to its end (not required); then
\* the schedule is regenerated
recordConsumption(user, ing, served, consumed) ==
  IF ~HasProfile(consumptionProfiles, user)
  THEN /\ distCall' = DistThrew("recordConsumption", <<user, ing, served, consumed>>,
                            "Profile not found")
       /\ UNCHANGED <<settings, portionHistory,
                      currentPortions, wasteTracking, pendingAdjustments,
                      distributionSchedule, reusableContainers, appliedLog>>
  ELSE LET record == ConsumptionRecord(ing, served, consumed, now)
           tracked == updateWasteTracking(wasteTracking, ing, record.wastePercentage)
           checked == checkForPortionAdjustment(tracked, currentPortions, ing, learningRate,
                                                maxAdjustmentPerCycle, consultationRequired)
           over == record.wastePercentage > AdjustmentThresholdBp
           adjustment == suggestPortionAdjustment(currentPortions, ing,
                            record.wastePercentage, learningRate, maxAdjustmentPerCycle,
                            consultationRequired)
           applyNow == over /\ ~consultationRequired
                            /\ ~NeedsConsultation(consultationRequired, FALSE)
           portions == IF applyNow
                       THEN Put(currentPortions, ing, adjustment.suggestedPortion)
                       ELSE currentPortions
       IN /\ Len(portionHistory) < MaxRecords
          /\ over => (RoomToApply /\ Len(pendingAdjustments) < MaxPending)
          /\ RoomForSchedule(portions)
          /\ portionHistory' = Append(portionHistory, record)
          /\ wasteTracking' = tracked
          /\ currentPortions' = portions
          /\ appliedLog' =
               IF applyNow
               THEN Append(appliedLog,
                      AppliedEntry(ing, adjustment.currentPortion,
                                   adjustment.suggestedPortion, FALSE))
               ELSE appliedLog
          /\ pendingAdjustments' =
               IF over /\ consultationRequired
               THEN Append(pendingAdjustments,
                      [adjustment |-> adjustment, response |-> consultUser(adjustment)])
               ELSE pendingAdjustments
          /\ distributionSchedule' =
               GeneratedSchedule(portions, ScheduleDays, Len(reusableContainers))
          /\ reusableContainers' = reusableContainers \o
               PlannedContainers(TotalIngredients(portions, ScheduleDays), now)
          /\ distCall' = DistReturned("recordConsumption", <<user, ing, served, consumed>>,
                            checked \o (IF over THEN <<adjustment>> ELSE <<>>))
          /\ UNCHANGED settings

\* handleAutomaticAdjustment resumed after `await this.consultUser(...)`
handleAutomaticAdjustment ==
  /\ pendingAdjustments # <<>>
  /\ LET p == Head(pendingAdjustments)
         ing == p.adjustment.ingredient
         applies == p.response.approved /\ ~NeedsConsultation(consultationRequired, TRUE)
     IN /\ pendingAdjustments' = Tail(pendingAdjustments)
        /\ currentPortions' =
             IF applies THEN Put(currentPortions, ing, p.adjustment.suggestedPortion)
             ELSE currentPortions
        /\ appliedLog' =
             IF applies
             THEN Append(appliedLog,
                    AppliedEntry(ing, CurrentOrDefault(currentPortions, ing),
                                 p.adjustment.suggestedPortion, TRUE))
             ELSE appliedLog
        /\ distCall' = DistReturned("handleAutomaticAdjustment",
                          <<ing, p.response.approved>>, <<>>)
  /\ UNCHANGED <<settings, portionHistory,
                 wasteTracking, distributionSchedule, reusableContainers>>

\* importSupermarketData(userId, {monthlyPatterns}): the daily amounts become the
\* current portions
ImportedPortions(portions, monthly) ==
  [i \in DOMAIN portions \cup DOMAIN monthly |->
     IF i \in DOMAIN monthly THEN (monthly[i] * MgPerGram) \div DaysPerMonth
     ELSE portions[i]]

importSupermarketData(user, monthly) ==
  IF ~HasProfile(consumptionProfiles, user)
  THEN /\ distCall' = DistThrew("importSupermarketData", <<user>>, "Profile not found")
       /\ UNCHANGED <<settings, portionHistory,
                      currentPortions, wasteTracking, pendingAdjustments,
                      distributionSchedule, reusableContainers, appliedLog>>
  ELSE /\ currentPortions' = ImportedPortions(currentPortions, monthly)
       /\ distCall' = DistReturned("importSupermarketData", <<user>>, <<>>)
       /\ UNCHANGED <<settings, portionHistory,
                      wasteTracking, pendingAdjustments, distributionSchedule,
                      reusableContainers, appliedLog>>

\* ConsumptionProfile.suggestPortionAdjustment called on the profile itself: it logs
\* and returns the adjustment, and changes no field
suggestOnly(ing, averageWaste) ==
  /\ distCall' = DistReturned("suggestPortionAdjustment", <<ing, averageWaste>>,
                    <<suggestPortionAdjustment(currentPortions, ing, averageWaste,
                                               learningRate, maxAdjustmentPerCycle,
                                               consultationRequired)>>)
  /\ UNCHANGED <<settings, portionHistory,
                 currentPortions, wasteTracking, pendingAdjustments, distributionSchedule,
                 reusableContainers, appliedLog>>

\* POST /portions/:userId/:ingredient/adjust -> profile.applyPortionAdjustment
applyPortionAdjustment(user, ing, newPortion, userApproved) ==
  IF ~HasProfile(consumptionProfiles, user)
  THEN /\ distCall' = DistThrew("applyPortionAdjustment", <<user, ing, newPortion, userApproved>>,
                            "Not Found")
       /\ UNCHANGED <<settings, portionHistory,
                      currentPortions, wasteTracking, pendingAdjustments,
                      distributionSchedule, reusableContainers, appliedLog>>
  ELSE IF NeedsConsultation(consultationRequired, userApproved)
  THEN /\ distCall' = DistThrew("applyPortionAdjustment", <<user, ing, newPortion, userApproved>>,
                            ConsultationRequiredError)
       /\ UNCHANGED <<settings, portionHistory,
                      currentPortions, wasteTracking, pendingAdjustments,
                      distributionSchedule, reusableContainers, appliedLog>>
  ELSE /\ RoomToApply
       /\ currentPortions' = Put(currentPortions, ing, newPortion)
       /\ appliedLog' = Append(appliedLog,
             AppliedEntry(ing, CurrentOrDefault(currentPortions, ing), newPortion,
                          userApproved))
       /\ distCall' = DistReturned("applyPortionAdjustment",
                         <<user, ing, newPortion, userApproved>>, <<>>)
       /\ UNCHANGED <<settings, portionHistory,
                      wasteTracking, pendingAdjustments, distributionSchedule,
                      reusableContainers>>

NextDistribution ==
  \/ \E c \in Consumptions :
       profileRecordConsumption(c[1], c[2], c[3]) /\ UNCHANGED <<sessionVars, rateVars, otherVars>>
  \/ \E c \in Consumptions :
       recordConsumption(ProfileUser, c[1], c[2], c[3])
         /\ UNCHANGED <<sessionVars, rateVars, otherVars>>
  \/ handleAutomaticAdjustment /\ UNCHANGED <<sessionVars, rateVars, otherVars>>
  \/ \E i \in Ingredients, p \in NewPortions, a \in BOOLEAN :
       applyPortionAdjustment(ProfileUser, i, p, a)
         /\ UNCHANGED <<sessionVars, rateVars, otherVars>>
  \/ generateDistributionSchedule(ProfileUser, ScheduleDays)
       /\ UNCHANGED <<sessionVars, rateVars, otherVars>>

\* the service's operations, called for users with and without a profile
NextUsers ==
  \/ \E u \in Users, c \in Consumptions :
       recordConsumption(u, c[1], c[2], c[3]) /\ UNCHANGED <<sessionVars, rateVars, otherVars>>
  \/ handleAutomaticAdjustment /\ UNCHANGED <<sessionVars, rateVars, otherVars>>
  \/ \E u \in Users, i \in Ingredients, p \in NewPortions :
       applyPortionAdjustment(u, i, p, TRUE) /\ UNCHANGED <<sessionVars, rateVars, otherVars>>
  \/ \E u \in Users : generateDistributionSchedule(u, ScheduleDays)
       /\ UNCHANGED <<sessionVars, rateVars, otherVars>>
  \/ \E u \in Users, m \in MonthlyPatterns :
       importSupermarketData(u, m) /\ UNCHANGED <<sessionVars, rateVars, otherVars>>

\* the calls on a long-running profile
NextProfile ==
  \/ \E c \in ProfileConsumptions : recordVaried(c)
    /\ UNCHANGED <<sessionVars, rateVars, otherVars>>
  \/ recordSteady /\ UNCHANGED <<sessionVars, rateVars, otherVars>>

\* portions are set, suggestions are asked
NextSuggest ==
  \/ \E i \in Ingredients, p \in SuggestPortions, a \in BOOLEAN :
       applyPortionAdjustment(ProfileUser, i, p, a)
         /\ UNCHANGED <<sessionVars, rateVars, otherVars>>
  \/ \E i \in Ingredients, w \in AverageWastes : suggestOnly(i, w)
       /\ UNCHANGED <<sessionVars, rateVars, otherVars>>

\* ------------------------------------------- rate limiter (middleware)
\* Times are in ms; the clock advances by whole minutes.

\* Math.ceil(a / b), b > 0
CeilDiv(a, b) == -((-a) \div b)

Limiter(windowMs, max) == [windowMs |-> windowMs, max |-> max]

\* the limiters of the module
generalLimiter == Limiter(15 * MsPerMinute, 100)
strictLimiter == Limiter(15 * MsPerMinute, 20)
recipeCreationLimiter == Limiter(60 * MsPerMinute, 50)
cookingLimiter == Limiter(5 * MsPerMinute, 10)
searchLimiter == Limiter(1 * MsPerMinute, 30)
uploadLimiter == Limiter(15 * MsPerMinute, 10)
healthCheckLimiter == Limiter(1 * MsPerMinute, 60)

\* path.includes(part), for a path given as the set of the parts it includes
Includes(req, part) == part \in req.parts

\* rateLimiter -> dynamicRateLimiter: the limiter that handles a request
LimiterFor(req) ==
  IF req.path = "/health" THEN healthCheckLimiter
  ELSE IF req.method = "POST" /\ Includes(req, "/recipes") /\ ~Includes(req, "/scale")
            /\ ~Includes(req, "/optimize")
  THEN recipeCreationLimiter
  ELSE IF Includes(req, "/cooking") /\ req.method \in {"POST", "PUT"} THEN cookingLimiter
  ELSE IF Includes(req, "/search") \/ req.search THEN searchLimiter
  ELSE IF Includes(req, "/upload") \/ req.multipart THEN uploadLimiter
  ELSE IF Includes(req, "/optimize") \/ Includes(req, "/analyze")
            \/ Includes(req, "/automation")
  THEN strictLimiter
  ELSE generalLimiter

\* keyGenerator = (req) => req.ip: the key of a request in rateLimitStore, the same
\* for every limiter
StoreKey(ip, class) == ip

\* `rateLimitData.resetTime <= windowStart`, windowStart = now - windowMs
WindowOver(data, t, windowMs) == data.resetTime <= t - windowMs

\* the data a request is counted in: the stored one, or a new window
WindowData(store, key, t, windowMs) ==
  IF key \notin DOMAIN store \/ WindowOver(store[key], t, windowMs)
  THEN [count |-> 0, resetTime |-> t + windowMs, firstRequest |-> t]
  ELSE store[key]

\* mutant: a request beyond max is let through once
LimitExceeded_lenient(count, max) == count > max + 1

\* `rateLimitData.count > max`
LimitExceeded(count, max) == count > max

\* what the middleware answered: the headers, and 429 with retryAfter or next()
RateResponse(op, class, data, t, max) ==
  [op |-> op, class |-> class, at |-> t, window |-> data.firstRequest,
   count |-> data.count,
   limit |-> max,
   remaining |-> Max(0, max - data.count),
   reset |-> CeilDiv(data.resetTime, MsPerSecond),
   status |-> IF LimitExceeded(data.count, max) THEN 429 ELSE 200,
   passed |-> ~LimitExceeded(data.count, max),
   retryAfter |-> IF LimitExceeded(data.count, max)
                  THEN CeilDiv(data.resetTime - t, MsPerSecond) ELSE Null]
NoRateCall ==
  [op |-> "none", class |-> "none", at |-> 0, window |-> 0, count |-> 0, limit |-> 0,
   remaining |-> 0, reset |-> 0, status |-> 200, passed |-> FALSE, retryAfter |-> Null]

\* module load: an empty store
InitRate ==
  /\ rateLimitStore = EmptyMap
  /\ rateClock = 0
  /\ limiter \in LimiterOptions
  /\ rateCall = NoRateCall
  /\ admitted = <<>>
  /\ usedClasses = {}
  /\ uncleanedStore = EmptyMap

\* time passes
RateTick ==
  /\ rateClock < MaxClock * MsPerMinute
  /\ rateClock' = rateClock + MsPerMinute
  /\ rateCall' = NoRateCall
  /\ UNCHANGED <<rateLimitStore, limiter, admitted, usedClasses, uncleanedStore>>

\* the setInterval callback: every 5 minutes the entries whose resetTime lies more
\* than 5 minutes back are deleted
cleanup ==
  /\ rateClock > 0 /\ rateClock % CleanupInterval = 0
  /\ rateLimitStore' =
       [k \in {j \in DOMAIN rateLimitStore :
                 ~(rateLimitStore[j].resetTime < rateClock - CleanupInterval)}
          |-> rateLimitStore[k]]
  /\ rateCall' = [NoRateCall EXCEPT !.op = "cleanup", !.at = rateClock]
  /\ UNCHANGED <<rateClock, limiter, admitted, usedClasses, uncleanedStore>>

\* the middleware createRateLimiter(options) returns, run on one request
Limited(op, class, ip, options) ==
  LET key == StoreKey(ip, class)
      old == WindowData(rateLimitStore, key, rateClock, options.windowMs)
      data == [old EXCEPT !.count = @ + 1]
      uncleaned == WindowData(uncleanedStore, key, rateClock, options.windowMs)
  IN /\ rateLimitStore' = Put(rateLimitStore, key, data)
     /\ uncleanedStore' = Put(uncleanedStore, key, [uncleaned EXCEPT !.count = @ + 1])
     /\ rateCall' = RateResponse(op, class, data, rateClock, options.max)
     /\ UNCHANGED rateClock

\* a request to a route guarded by the limiter under test
limitedRequest(ip) ==
  /\ \A k \in DOMAIN rateLimitStore : rateLimitStore[k].count < MaxCount
  /\ \A k \in DOMAIN uncleanedStore : uncleanedStore[k].count <= MaxCount
  /\ Limited("limiter", "limiter", ip, limiter)
  /\ admitted' = IF rateCall'.passed
                 THEN Append(admitted, [at |-> rateClock, window |-> rateCall'.window])
                 ELSE admitted
  /\ Len(admitted') <= MaxAdmitted
  /\ UNCHANGED <<limiter, usedClasses>>

\* the names of the limiters dynamicRateLimiter chooses from
ClassOf(options) ==
  IF options = recipeCreationLimiter THEN "recipe"
  ELSE IF options = cookingLimiter THEN "cooking"
  ELSE IF options = searchLimiter THEN "search"
  ELSE IF options = strictLimiter THEN "strict"
  ELSE IF options = uploadLimiter THEN "upload"
  ELSE IF options = healthCheckLimiter THEN "health"
  ELSE "general"

\* skipRateLimit: internal requests are not limited
skipRateLimit(req) == req.path # "/health" /\ req.internal

\* app.use(rateLimiter): a request of a client through the main middleware
rateLimiter(ip, req) ==
  LET options == LimiterFor(req)
      class == IF skipRateLimit(req) THEN "internal" ELSE ClassOf(options)
  IN /\ \A k \in DOMAIN rateLimitStore : rateLimitStore[k].count < MaxRequests
     /\ \A k \in DOMAIN uncleanedStore : uncleanedStore[k].count <= MaxRequests
     /\ usedClasses' = IF skipRateLimit(req) THEN usedClasses ELSE usedClasses \cup {class}
     /\ IF skipRateLimit(req)
        THEN /\ rateCall' = [NoRateCall EXCEPT !.op = "rateLimiter", !.class = class,
                                               !.at = rateClock, !.passed = TRUE]
             /\ UNCHANGED <<rateLimitStore, rateClock, uncleanedStore>>
        ELSE Limited("rateLimiter", class, ip, options)
     /\ UNCHANGED <<limiter, admitted>>

NextLimiter ==
  \/ RateTick /\ UNCHANGED <<sessionVars, distVars, otherVars>>
  \/ cleanup /\ UNCHANGED <<sessionVars, distVars, otherVars>>
  \/ \E ip \in ClientIPs : limitedRequest(ip) /\ UNCHANGED <<sessionVars, distVars, otherVars>>

NextRateLimit ==
  \/ RateTick /\ UNCHANGED <<sessionVars, distVars, otherVars>>
  \/ cleanup /\ UNCHANGED <<sessionVars, distVars, otherVars>>
  \/ \E ip \in ClientIPs, req \in Requests :
       rateLimiter(ip, req) /\ UNCHANGED <<sessionVars, distVars, otherVars>>

\* searches and uploads of a client, through the main middleware
SearchAndUpload ==
  {Request("GET", "/api/recipes/search", {"/recipes", "/search"}, FALSE),
   [Request("POST", "/api/images", {}, FALSE) EXCEPT !.multipart = TRUE]}

NextCleanup ==
  \/ RateTick /\ UNCHANGED <<sessionVars, distVars, otherVars>>
  \/ cleanup /\ UNCHANGED <<sessionVars, distVars, otherVars>>
  \/ \E ip \in ClientIPs, req \in SearchAndUpload :
       rateLimiter(ip, req) /\ UNCHANGED <<sessionVars, distVars, otherVars>>

\* ------------------------------------------------------ Recipe (model)
\* Amounts and nutrition values are JS Numbers: IEEE 754 binary64, kept as the 53
\* bits of the significand (most significant first) and the exponent of its last
\* bit; zero has no bits.  A product or quotient is rounded to nearest, ties to even.
Precision == 53
Byte == 8

\* the Number nearest to bits * 2^exp (plus a remainder below the last bit when
\* sticky)
Number(bits, exp, sticky) ==
  LET ones == {i \in 1..Len(bits) : bits[i] = 1}
      first == CHOOSE i \in ones : \A j \in ones : i <= j
      s == SubSeq(bits, first, Len(bits))
      n == Len(s)
      kept == SubSeq(s, 1, Precision)
      zeros == {i \in 1..Precision : kept[i] = 0}
      last == CHOOSE i \in zeros : \A j \in zeros : i >= j
      up == /\ s[Precision + 1] = 1
            /\ sticky \/ kept[Precision] = 1 \/ \E i \in (Precision + 2)..n : s[i] = 1
  IN IF ones = {} THEN [bits |-> <<>>, exp |-> 0]
     ELSE IF n <= Precision
     THEN [bits |-> s \o [i \in 1..(Precision - n) |-> 0], exp |-> exp - (Precision - n)]
     ELSE IF ~up THEN [bits |-> kept, exp |-> exp + (n - Precision)]
     ELSE IF zeros = {}
     THEN [bits |-> [i \in 1..Precision |-> IF i = 1 THEN 1 ELSE 0],
           exp |-> exp + (n - Precision) + 1]
     ELSE [bits |-> [i \in 1..Precision |->
                       IF i < last THEN kept[i] ELSE IF i = last THEN 1 ELSE 0],
           exp |-> exp + (n - Precision)]

\* n / d for integers n >= 0 and d > 0, by long division, a byte of the fraction
\* at a time; Quotient(n, 1) is the Number n
Quotient(n, d) ==
  LET RECURSIVE BitsOf(_)
      BitsOf(k) == IF k = 0 THEN <<>> ELSE Append(BitsOf(k \div 2), k % 2)
      Bits(q) == [i \in 1..Byte |-> (q \div 2^(Byte - i)) % 2]
      RECURSIVE Fraction(_, _)
      Fraction(r, k) == IF k = 0 THEN <<>>
                        ELSE Bits((r * 2^Byte) \div d) \o Fraction((r * 2^Byte) % d, k - 1)
      RECURSIVE Remainder(_, _)
      Remainder(r, k) == IF k = 0 THEN r ELSE Remainder((r * 2^Byte) % d, k - 1)
      K == Precision \div Byte + 3
  IN Number(BitsOf(n \div d) \o Fraction(n % d, K), -(K * Byte), Remainder(n % d, K) # 0)

\* a * b: the exact product of the significands, column by column with carry, a
\* byte at a time, then rounded
Times(a, b) ==
  IF a.bits = <<>> \/ b.bits = <<>> THEN [bits |-> <<>>, exp |-> 0]
  ELSE LET P == Precision
           Col(k) == Cardinality({i \in 0..(P - 1) :
                        /\ k - i \in 0..(P - 1)
                        /\ a.bits[P - i] = 1 /\ b.bits[P - (k - i)] = 1})
           RECURSIVE Chunk(_, _)
           Chunk(k, j) == IF j = Byte THEN 0 ELSE Col(k + j) * 2^j + Chunk(k, j + 1)
           Bits(q) == [i \in 1..Byte |-> (q \div 2^(Byte - i)) % 2]
           RECURSIVE Product(_, _)
           Product(k, c) == IF k >= 2 * P THEN <<>>
                            ELSE LET t == Chunk(k, 0) + c
                                 IN Product(k + Byte, t \div 2^Byte) \o Bits(t % 2^Byte)
       IN Number(Product(0, 0), a.exp + b.exp, FALSE)

\* new Recipe(data): the recipe of the unit tests (400 g pasta, 200 ml tomato sauce;
\* 400 kcal, 20 g protein and the default 0 g fiber) for 4 or for 3 servings
RecipeData ==
  {[servings |-> n,
    ingredients |-> <<[name |-> "pasta", amount |-> Quotient(400, 1)],
                      [name |-> "tomato sauce", amount |-> Quotient(200, 1)]>>,
    nutrition |-> [key \in {"calories", "protein", "fiber"} |->
                     IF key = "calories" THEN Quotient(400, 1)
                     ELSE IF key = "protein" THEN Quotient(20, 1) ELSE Quotient(0, 1)]]
     : n \in {3, 4}}
NewServings == {-1, 0, 1, 3, 4, 8}   \* newServings of scaleServings

NoRecipeCall == [op |-> "none", args |-> <<>>, error |-> "none"]

InitRecipe ==
  /\ recipe \in RecipeData
  /\ recipeCall = NoRecipeCall
  /\ scaled = <<recipe>>

\* Recipe.scaleServings(newServings)
scaleServings(newServings) ==
  IF newServings <= 0
  THEN /\ recipeCall' = [op |-> "scaleServings", args |-> <<newServings>>,
                         error |-> "Servings must be greater than 0"]
       /\ UNCHANGED <<recipe, scaled>>
  ELSE LET scaleFactor == Quotient(newServings, recipe.servings)
       IN /\ Len(scaled) <= MaxScalings
          /\ recipe' =
               [servings |-> newServings,
                ingredients |->
                  [k \in DOMAIN recipe.ingredients |->
                     [recipe.ingredients[k] EXCEPT !.amount = Times(@, scaleFactor)]],
                nutrition |->
                  [key \in DOMAIN recipe.nutrition |->
                     Times(recipe.nutrition[key], scaleFactor)]]
          /\ scaled' = Append(scaled, recipe')
          /\ recipeCall' = [op |-> "scaleServings", args |-> <<newServings>>,
                            error |-> "none"]

NextRecipe ==
  \E n \in NewServings :
    scaleServings(n) /\ UNCHANGED <<sessionVars, distVars, rateVars, growVars, returnVars, hardwareVars>>

\* ----------------------------------------------- GrowingModule (model)
\* A cycle id is 'cycle_' + Date.now() + '_' + six random characters: the ids of a
\* module are taken to differ, and are numbered in the order of their creation.

\* cycleData of POST /modules/:id/cycles: with and without a section
CycleData == {[cropVariety |-> "lettuce", section |-> Undefined],
              [cropVariety |-> "herbs", section |-> "section_2"]}
\* maxConcurrentCycles in the body of PUT /modules/:id
PutMaxCycles == {2}

GrowReturned(op, args) == [op |-> op, args |-> args, error |-> "none"]
GrowThrew(op, args, message) == [op |-> op, args |-> args, error |-> message]

\* new GrowingModule(sampleModule): no active cycles, at most 4 at a time
InitGrowing ==
  /\ growingModule = [activeCycles |-> <<>>, maxConcurrentCycles |-> 4, cyclesStarted |-> 0]
  /\ growCall = GrowReturned("none", <<>>)

\* `this.activeCycles.length >= this.maxConcurrentCycles`
AtCapacity(module) == Len(module.activeCycles) >= module.maxConcurrentCycles

\* getAvailableSection: the first section no active cycle uses, or 'section_1'
getAvailableSection(module) ==
  LET used == {module.activeCycles[k].section : k \in DOMAIN module.activeCycles}
      free == {i \in 1..module.maxConcurrentCycles : <<"section", i>> \notin used}
  IN IF free = {} THEN <<"section", 1>>
     ELSE <<"section", CHOOSE i \in free : \A j \in free : i <= j>>

\* GrowingModule.startGrowingCycle(cycleData)
startGrowingCycle(cycleData) ==
  IF AtCapacity(growingModule)
  THEN /\ growCall' = GrowThrew("startGrowingCycle", <<cycleData>>,
                                "Maximum concurrent growing cycles reached")
       /\ UNCHANGED growingModule
  ELSE LET id == growingModule.cyclesStarted + 1
           cycle == [id |-> id, cropVariety |-> cycleData.cropVariety,
                     section |-> IF cycleData.section = Undefined
                                 THEN getAvailableSection(growingModule)
                                 ELSE <<"section", 2>>,
                     status |-> "planted"]
       IN /\ growingModule.cyclesStarted < MaxCycles
          /\ growingModule' = [growingModule EXCEPT !.activeCycles = Append(@, cycle),
                                                    !.cyclesStarted = id]
          /\ growCall' = GrowReturned("startGrowingCycle", <<cycleData>>)

\* GrowingModule.harvestCycle(cycleId, harvestData)
harvestCycle(cycleId) ==
  LET found == {k \in DOMAIN growingModule.activeCycles :
                  growingModule.activeCycles[k].id = cycleId}
  IN IF found = {}
     THEN /\ growCall' = GrowThrew("harvestCycle", <<cycleId>>, "Growing cycle not found")
          /\ UNCHANGED growingModule
     ELSE LET cycleIndex == CHOOSE k \in found : \A l \in found : k <= l
              cycles == growingModule.activeCycles
          IN /\ growingModule' =
                  [growingModule EXCEPT !.activeCycles =
                     SubSeq(cycles, 1, cycleIndex - 1)
                       \o SubSeq(cycles, cycleIndex + 1, Len(cycles))]
             /\ growCall' = GrowReturned("harvestCycle", <<cycleId>>)

\* PUT /modules/:id with {maxConcurrentCycles}: every own property named in the body
\* is overwritten
putModule(maxCycles) ==
  /\ growingModule' = [growingModule EXCEPT !.maxConcurrentCycles = maxCycles]
  /\ growCall' = GrowReturned("putModule", <<maxCycles>>)

NextGrowing ==
  \/ \E d \in CycleData :
       startGrowingCycle(d) /\ UNCHANGED <<sessionVars, distVars, rateVars, recipeVars, returnVars,
                      hardwareVars>>
  \/ \E id \in 1..MaxCycles :
       harvestCycle(id) /\ UNCHANGED <<sessionVars, distVars, rateVars, recipeVars, returnVars,
                      hardwareVars>>
  \/ \E m \in PutMaxCycles :
       putModule(m) /\ UNCHANGED <<sessionVars, distVars, rateVars, recipeVars, returnVars,
                      hardwareVars>>

\* ------------------------- PrecisionDistributionService: container returns
ReuseLimit == 100                    \* `container.timesReused < 100`
Conditions == {"good", "damaged"}    \* req.body.condition of the return route
ContainerIds == {1, 2}               \* the container assigned, and an id that is unknown

\* mutant: a container is cleaned once more on reaching the limit
Reusable_atLimit(condition, timesReused) == condition = "good" /\ timesReused <= ReuseLimit

\* `condition === 'good' && container.timesReused < 100`
Reusable(condition, timesReused) == condition = "good" /\ timesReused < ReuseLimit

\* a new service: no container was returned
InitContainers ==
  /\ containersReused = 0
  /\ cleaningTimers = <<>>

\* assignReusableContainer(containerType), on its own
assignReusableContainer(type) ==
  /\ reusableContainers = <<>>
  /\ reusableContainers' = Append(reusableContainers, NewContainer(type, now))
  /\ distCall' = DistReturned("assignReusableContainer", <<type>>, <<>>)
  /\ UNCHANGED <<settings, portionHistory, currentPortions, wasteTracking, pendingAdjustments,
                 distributionSchedule, appliedLog, returnVars>>

\* processContainerReturn(containerId, condition)
processContainerReturn(containerId, condition) ==
  /\ IF containerId \notin DOMAIN reusableContainers
     THEN /\ distCall' = DistThrew("processContainerReturn", <<containerId, condition>>,
                                   "Container not found")
          /\ UNCHANGED <<reusableContainers, returnVars>>
     ELSE LET container == reusableContainers[containerId]
              timesReused == container.timesReused + 1
              clean == Reusable(condition, timesReused)
              returned == Put(Put(Put(container, "returnedAt", now), "condition", condition),
                              "timesReused", timesReused)
          IN /\ containersReused < MaxReturns
             /\ clean => Len(cleaningTimers) < MaxTimers
             /\ reusableContainers' =
                  [reusableContainers EXCEPT ![containerId] =
                     Put(returned, "status", IF clean THEN "cleaning" ELSE "retired")]
             /\ cleaningTimers' =
                  IF clean THEN Append(cleaningTimers, containerId) ELSE cleaningTimers
             /\ containersReused' = containersReused + 1
             /\ distCall' = DistReturned("processContainerReturn",
                               <<containerId, condition>>, <<>>)
  /\ UNCHANGED <<settings, portionHistory, currentPortions, wasteTracking, pendingAdjustments,
                 distributionSchedule, appliedLog>>

\* the callback of setTimeout(..., 1000): the oldest pending cleaning is over
cleaningDone ==
  /\ cleaningTimers # <<>>
  /\ reusableContainers' =
       [reusableContainers EXCEPT ![Head(cleaningTimers)] =
          Put(Put(@, "status", "available"), "cleanedAt", now)]
  /\ cleaningTimers' = Tail(cleaningTimers)
  /\ distCall' = DistReturned("cleaningDone", <<Head(cleaningTimers)>>, <<>>)
  /\ UNCHANGED <<settings, portionHistory, currentPortions, wasteTracking, pendingAdjustments,
                 distributionSchedule, appliedLog, containersReused>>

\* the timer callback as a step of the whole system
CleaningStep == cleaningDone /\ UNCHANGED <<sessionVars, rateVars, recipeVars, growVars, hardwareVars>>

NextContainers ==
  \/ assignReusableContainer("small")
       /\ UNCHANGED <<sessionVars, rateVars, recipeVars, growVars, hardwareVars>>
  \/ \E id \in ContainerIds, c \in Conditions :
       processContainerReturn(id, c) /\ UNCHANGED <<sessionVars, rateVars, recipeVars, growVars, hardwareVars>>
  \/ CleaningStep

\* ----------------------------------- HardwareIntegrationService (model)
\* One module.  connectToPhysical..., readPhysicalSensor and sendTaskToPhysicalRobot
\* stand for the hardware ("Real implementation would ..."): a call returns or
\* throws; the placeholders of this repository always throw.
ModuleId == "module_1"
\* sensorConfig; simulators['toString'] is inherited from Object.prototype, so the
\* simulator of the second sensor has no getReading
SensorConfigs == {[id |-> "s1", type |-> "temperature"], [id |-> "s2", type |-> "toString"]}
FailureThreshold == 5                \* `sensor.errorCount >= 5`

HwReturned(op, args, result) == [op |-> op, args |-> args, error |-> "none", result |-> result]
HwThrew(op, args, message) == [op |-> op, args |-> args, error |-> message, result |-> <<>>]

\* constructor
InitHardware ==
  /\ simulationMode \in BOOLEAN
  /\ connectedDevices = EmptyMap
  /\ sensorReadings = EmptyMap
  /\ activePolling = EmptyMap
  /\ intervals = {}
  /\ timersSet = 0
  /\ timeouts = 0
  /\ polls = 0
  /\ readLog = EmptyMap
  /\ hwCall = HwReturned("none", <<>>, <<>>)

\* the entry of the module, or the one initializeSensor / Actuator / Robot creates
\* for a module that has none
ModuleHardware(devices) ==
  IF ModuleId \in DOMAIN devices THEN devices[ModuleId]
  ELSE [sensors |-> EmptyMap, actuators |-> EmptyMap, robots |-> EmptyMap,
        status |-> Undefined]

\* this.connectedDevices.get(moduleId)[kind].set(device.id, device)
Register(devices, kind, device) ==
  Put(devices, ModuleId, [ModuleHardware(devices) EXCEPT ![kind] = Put(@, device.id, device)])

\* the sensor initializeSensor builds
NewSensor(sensorConfig, simulated) ==
  [id |-> sensorConfig.id, type |-> sensorConfig.type,
   status |-> IF simulated THEN "simulated" ELSE "connected",
   lastReading |-> Null, errorCount |-> 0]

\* initializeSensor(moduleId, sensorConfig); connects: the hardware answers
initializeSensor(sensorConfig, connects) ==
  /\ IF ~simulationMode /\ ~connects
     THEN /\ hwCall' = HwThrew("initializeSensor", <<sensorConfig.id>>,
                               "Physical sensor connection not implemented")
          /\ UNCHANGED <<connectedDevices, readLog>>
     ELSE /\ connectedDevices' = Register(connectedDevices, "sensors",
                                          NewSensor(sensorConfig, simulationMode))
          /\ readLog' = Put(readLog, sensorConfig.id, <<>>)
          /\ hwCall' = HwReturned("initializeSensor", <<sensorConfig.id>>, <<>>)
  /\ UNCHANGED <<simulationMode, sensorReadings, activePolling, intervals, timersSet,
                 timeouts, polls>>

\* what a read of the sensor can do: the simulator's getReading returns (there is
\* none for the type 'toString': a TypeError); readPhysicalSensor returns or throws
ReadOutcomes(sensor) ==
  IF sensor.status = "simulated"
  THEN (IF sensor.type = "toString" THEN {"error"} ELSE {"ok"})
  ELSE {"ok", "error"}

\* mutant: a sensor is marked failed after 4 errors
Failing_early(errorCount) == errorCount >= FailureThreshold - 1

\* `sensor.errorCount >= 5`
Failing(errorCount) == errorCount >= FailureThreshold

\* the body of the loop of pollAllSensors, for one sensor and the outcome of its read
PolledSensor(sensor, outcome, timestamp) ==
  IF outcome = "ok"
  THEN [sensor EXCEPT !.lastReading = timestamp, !.errorCount = 0]
  ELSE [sensor EXCEPT !.errorCount = @ + 1,
                      !.status = IF Failing(sensor.errorCount + 1) THEN "failed" ELSE @]

\* pollAllSensors(moduleId), called by the interval timer or directly; a reading is
\* known by its timestamp
pollAllSensors ==
  /\ polls < MaxPolls
  /\ polls' = polls + 1
  /\ IF ModuleId \notin DOMAIN connectedDevices
     THEN /\ hwCall' = HwReturned("pollAllSensors", <<>>, <<>>)
          /\ UNCHANGED <<connectedDevices, sensorReadings, readLog>>
     ELSE LET sensors == connectedDevices[ModuleId].sensors
          IN \E outcomes \in [DOMAIN sensors -> {"ok", "error"}] :
               /\ \A id \in DOMAIN sensors : outcomes[id] \in ReadOutcomes(sensors[id])
               /\ connectedDevices' =
                    [connectedDevices EXCEPT ![ModuleId].sensors =
                       [id \in DOMAIN sensors |->
                          PolledSensor(sensors[id], outcomes[id], polls')]]
               /\ sensorReadings' =
                    Put(sensorReadings, ModuleId,
                        [readings |-> {sensors[id].type :
                                         id \in {i \in DOMAIN sensors : outcomes[i] = "ok"}},
                         timestamp |-> polls'])
               /\ readLog' = [id \in DOMAIN readLog |->
                                IF id \in DOMAIN sensors THEN Append(readLog[id], outcomes[id])
                                ELSE readLog[id]]
               /\ hwCall' = HwReturned("pollAllSensors", <<>>, outcomes)
  /\ UNCHANGED <<simulationMode, activePolling, intervals, timersSet, timeouts>>

NextSensors ==
  \/ \E c \in SensorConfigs, connects \in BOOLEAN :
       initializeSensor(c, connects)
         /\ UNCHANGED <<sessionVars, distVars, rateVars, recipeVars, growVars, returnVars>>
  \/ pollAllSensors
       /\ UNCHANGED <<sessionVars, distVars, rateVars, recipeVars, growVars, returnVars>>

\* robotConfig, and the tasks given to the robots
RobotConfigs == {[id |-> "r1", type |-> "harvester"], [id |-> "r2", type |-> "seeder"]}
Tasks == {[type |-> "harvest"], [type |-> "transport"]}
NoTask == [type |-> "null", status |-> "null"]      \* currentTask: null

\* the robot initializeRobot builds
NewRobot(robotConfig, simulated) ==
  [id |-> robotConfig.id, type |-> robotConfig.type,
   status |-> IF simulated THEN "simulated" ELSE "connected",
   currentTask |-> NoTask, taskQueue |-> <<>>]

\* initializeRobot(moduleId, robotConfig); connects: the hardware answers
initializeRobot(robotConfig, connects) ==
  /\ IF ~simulationMode /\ ~connects
     THEN /\ hwCall' = HwThrew("initializeRobot", <<robotConfig.id>>,
                               "Physical robot connection not implemented")
          /\ UNCHANGED connectedDevices
     ELSE /\ connectedDevices' = Register(connectedDevices, "robots",
                                          NewRobot(robotConfig, simulationMode))
          /\ hwCall' = HwReturned("initializeRobot", <<robotConfig.id>>, <<>>)
  /\ UNCHANGED <<simulationMode, sensorReadings, activePolling, intervals, timersSet,
                 timeouts, polls, readLog>>

\* `robot.currentTask && robot.currentTask.status === 'executing'`
Busy(robot) == robot.currentTask # NoTask /\ robot.currentTask.status = "executing"

\* assignRobotTask(moduleId, robotId, task); sends: the hardware takes the task
assignRobotTask(robotId, task, sends) ==
  /\ IF \/ ModuleId \notin DOMAIN connectedDevices
        \/ robotId \notin DOMAIN connectedDevices[ModuleId].robots
     THEN /\ hwCall' = HwThrew("assignRobotTask", <<robotId, task>>, "Robot not found")
          /\ UNCHANGED <<connectedDevices, timeouts>>
     ELSE LET robot == connectedDevices[ModuleId].robots[robotId]
          IN IF Busy(robot)
             THEN /\ Len(robot.taskQueue) < MaxQueue
                  /\ connectedDevices' =
                       [connectedDevices EXCEPT ![ModuleId].robots[robotId].taskQueue =
                          Append(@, task)]
                  /\ hwCall' = HwReturned("assignRobotTask", <<robotId, task>>,
                                  [status |-> "queued",
                                   queuePosition |-> Len(robot.taskQueue) + 1])
                  /\ UNCHANGED timeouts
             ELSE IF robot.status = "simulated" \/ sends
             THEN /\ timeouts < MaxTimers
                  /\ connectedDevices' =
                       [connectedDevices EXCEPT ![ModuleId].robots[robotId].currentTask =
                          [type |-> task.type, status |-> "executing"]]
                  /\ timeouts' = IF robot.status = "simulated" THEN timeouts + 1
                                 ELSE timeouts
                  /\ hwCall' = HwReturned("assignRobotTask", <<robotId, task>>,
                                  [status |-> "executing", queuePosition |-> 0])
             ELSE /\ connectedDevices' =
                       [connectedDevices EXCEPT ![ModuleId].robots[robotId].currentTask =
                          NoTask]
                  /\ hwCall' = HwThrew("assignRobotTask", <<robotId, task>>,
                                       "Failed to assign task to robot")
                  /\ UNCHANGED timeouts
  /\ UNCHANGED <<simulationMode, sensorReadings, activePolling, intervals, timersSet,
                 polls, readLog>>

\* the setTimeout callback of the simulator's executeTask: it logs that the robot
\* completed the task
taskCompleted ==
  /\ timeouts > 0
  /\ timeouts' = timeouts - 1
  /\ hwCall' = HwReturned("robot completed task", <<>>, <<>>)
  /\ UNCHANGED <<simulationMode, connectedDevices, sensorReadings, activePolling, intervals,
                 timersSet, polls, readLog>>

TaskCompletedStep ==
  taskCompleted /\ UNCHANGED <<sessionVars, distVars, rateVars, recipeVars, growVars, returnVars>>

NextRobots ==
  \/ \E c \in RobotConfigs, connects \in BOOLEAN :
       initializeRobot(c, connects)
         /\ UNCHANGED <<sessionVars, distVars, rateVars, recipeVars, growVars, returnVars>>
  \/ \E c \in RobotConfigs, task \in Tasks, sends \in BOOLEAN :
       assignRobotTask(c.id, task, sends)
         /\ UNCHANGED <<sessionVars, distVars, rateVars, recipeVars, growVars, returnVars>>
  \/ TaskCompletedStep

\* hardwareConfig of initializeModule: sensors, actuators and robots
HardwareConfigs ==
  {[sensors |-> <<[id |-> "s1", type |-> "temperature"]>>,
    actuators |-> <<[id |-> "a1", type |-> "pump"]>>,
    robots |-> <<[id |-> "r1", type |-> "harvester"]>>],
   [sensors |-> <<>>, actuators |-> <<>>, robots |-> <<>>]}

\* Map.delete(k)
Remove(f, k) == [x \in DOMAIN f \ {k} |-> f[x]]

\* the actuator initializeActuator builds
NewActuator(actuatorConfig, simulated) ==
  [id |-> actuatorConfig.id, type |-> actuatorConfig.type,
   status |-> IF simulated THEN "simulated" ELSE "connected"]

\* initializeModule(moduleId, hardwareConfig): the devices are initialized one after
\* the other, each registering itself; then the entry of the module is set to the
\* moduleHardware built at the start, and the polling is started.  connects: the
\* hardware answers (if not, the first device throws)
initializeModule(hardwareConfig, connects) ==
  LET RegisterAll(devices, kind, list) ==
        LET RECURSIVE fold(_, _)
            fold(d, k) == IF k > Len(list) THEN d
                          ELSE fold(Register(d, kind, list[k]), k + 1)
        IN fold(devices, 1)
      sensors == [k \in DOMAIN hardwareConfig.sensors |->
                    NewSensor(hardwareConfig.sensors[k], simulationMode)]
      actuators == [k \in DOMAIN hardwareConfig.actuators |->
                      NewActuator(hardwareConfig.actuators[k], simulationMode)]
      robots == [k \in DOMAIN hardwareConfig.robots |->
                   NewRobot(hardwareConfig.robots[k], simulationMode)]
      registered == RegisterAll(RegisterAll(RegisterAll(connectedDevices,
                      "sensors", sensors), "actuators", actuators), "robots", robots)
      moduleHardware == [sensors |-> EmptyMap, actuators |-> EmptyMap,
                         robots |-> EmptyMap, status |-> "active"]
      none == Len(sensors) + Len(actuators) + Len(robots) = 0
      timer == timersSet + 1
  IN IF ~simulationMode /\ ~connects /\ ~none
     THEN /\ hwCall' = HwThrew("initializeModule", <<hardwareConfig>>,
                               "Failed to initialize hardware")
          /\ UNCHANGED <<simulationMode, connectedDevices, sensorReadings, activePolling,
                         intervals, timersSet, timeouts, polls, readLog>>
     ELSE /\ timersSet < MaxInits
          /\ connectedDevices' = Put(registered, ModuleId, moduleHardware)
          /\ readLog' = EmptyMap
          /\ intervals' = {t \in intervals : ModuleId \notin DOMAIN activePolling
                                              \/ t # activePolling[ModuleId]} \cup {timer}
          /\ activePolling' = Put(activePolling, ModuleId, timer)
          /\ timersSet' = timer
          /\ hwCall' = HwReturned("initializeModule", <<hardwareConfig>>,
                          [sensors |-> Len(sensors), actuators |-> Len(actuators),
                           robots |-> Len(robots)])
          /\ UNCHANGED <<simulationMode, sensorReadings, timeouts, polls>>

\* shutdownModule(moduleId)
shutdownModule ==
  /\ intervals' = {t \in intervals : ModuleId \notin DOMAIN activePolling
                                      \/ t # activePolling[ModuleId]}
  /\ activePolling' = Remove(activePolling, ModuleId)
  /\ connectedDevices' = Remove(connectedDevices, ModuleId)
  /\ sensorReadings' = IF ModuleId \in DOMAIN connectedDevices
                       THEN Remove(sensorReadings, ModuleId) ELSE sensorReadings
  /\ readLog' = EmptyMap
  /\ hwCall' = HwReturned("shutdownModule", <<>>, <<>>)
  /\ UNCHANGED <<simulationMode, timersSet, timeouts, polls>>

NextModules ==
  \/ \E config \in HardwareConfigs, connects \in BOOLEAN :
       initializeModule(config, connects)
         /\ UNCHANGED <<sessionVars, distVars, rateVars, recipeVars, growVars, returnVars>>
  \/ pollAllSensors
       /\ UNCHANGED <<sessionVars, distVars, rateVars, recipeVars, growVars, returnVars>>
  \/ shutdownModule
       /\ UNCHANGED <<sessionVars, distVars, rateVars, recipeVars, growVars, returnVars>>

\* a session on the empty recipe, left alone
SessionIdle == InitSession /\ instructions = <<>>

\* a rate limiter with the default options that gets no request
RateIdle == InitRate /\ limiter = generalLimiter

\* a profile with the default adjustmentSettings, left alone
DistributionIdle ==
  /\ InitDistribution
  /\ consultationRequired = TRUE /\ maxAdjustmentPerCycle = 20
  /\ learningRate = LearningRatePct

\* the recipe of the unit tests, never scaled
RecipeIdle == InitRecipe /\ recipe.servings = 4

\* a hardware service in simulation mode, left alone
HardwareIdle == InitHardware /\ simulationMode

\* the other components, left alone
OthersIdle == RecipeIdle /\ InitGrowing /\ InitContainers /\ HardwareIdle

Init ==
  /\ InitSession /\ InitDistribution /\ InitRate /\ InitRecipe /\ InitGrowing
  /\ InitContainers /\ InitHardware

\* a session of any recipe beside an idle default profile
SessionInit == InitSession /\ DistributionIdle /\ RateIdle /\ OthersIdle

\* a profile of any adjustmentSettings with the default learningRate
DistributionInit ==
  /\ SessionIdle /\ InitDistribution /\ learningRate = LearningRatePct /\ RateIdle
  /\ OthersIdle

\* a profile that requires consultation or not, its other settings the default ones
UsersInit == DistributionInit /\ maxAdjustmentPerCycle = 20

\* a profile of any adjustmentSettings, learningRate included
SettingsInit == SessionIdle /\ InitDistribution /\ RateIdle /\ OthersIdle

\* a limiter of any options, beside an idle session and an idle profile
LimiterInit == SessionIdle /\ DistributionIdle /\ InitRate /\ OthersIdle

\* the module's limiters
RateLimitInit == SessionIdle /\ DistributionIdle /\ RateIdle /\ OthersIdle

\* a recipe of the unit tests, beside idle components
RecipeInit ==
  /\ SessionIdle /\ DistributionIdle /\ RateIdle
  /\ InitRecipe /\ InitGrowing /\ InitContainers /\ HardwareIdle

\* every component as constructed, with the default settings
IdleInit == SessionIdle /\ DistributionIdle /\ RateIdle /\ OthersIdle

\* the cooking session under every call sequence
SpecSession == SessionInit /\ [][NextSession]_vars

\* the consumption profile of ProfileUser and the distribution service under every
\* sequence of calls made for that user
SpecDistribution == DistributionInit /\ [][NextDistribution]_vars

\* a long-running consumption profile under every sequence of MaxVaried records
\* followed by steady ones
SpecProfile == DistributionInit /\ [][NextProfile]_vars

\* suggestPortionAdjustment for every setting, current portion and average waste
SpecSuggest == SettingsInit /\ [][NextSuggest]_vars

\* the distribution service under every sequence of calls, made for ProfileUser and
\* for a user without a profile
SpecUsers == UsersInit /\ [][NextUsers]_vars

\* one limiter made by createRateLimiter(options) and the requests of one client
SpecLimiter == LimiterInit /\ [][NextLimiter]_vars

\* the main middleware rateLimiter and the requests of one client to every class
\* of endpoints
SpecRateLimit == RateLimitInit /\ [][NextRateLimit]_vars

\* the same middleware, the cleanup timer and a client that searches and uploads
SpecCleanup == RateLimitInit /\ [][NextCleanup]_vars

\* one Recipe under every sequence of scaleServings calls
SpecRecipe == RecipeInit /\ [][NextRecipe]_vars

\* one GrowingModule under every sequence of calls of its cycle routes and of PUT
SpecGrowing == IdleInit /\ [][NextGrowing]_vars

\* one container of the distribution service: assigned, returned in any condition
\* any number of times, cleaned
SpecContainers == IdleInit /\ [][NextContainers]_vars

\* the same, with timers that fire: a pending timeout is not left pending for ever
LiveContainers == SpecContainers /\ WF_vars(CleaningStep)

\* a hardware service in either mode, beside idle components
HardwareInit ==
  /\ SessionIdle /\ DistributionIdle /\ RateIdle
  /\ RecipeIdle /\ InitGrowing /\ InitContainers /\ InitHardware

\* the sensors of one module: registered, and polled with every outcome of the reads
SpecSensors == HardwareInit /\ [][NextSensors]_vars

\* the robots of one module and the tasks given to them
SpecRobots == HardwareInit /\ [][NextRobots]_vars

\* the same, with timers that fire
LiveRobots == SpecRobots /\ WF_vars(TaskCompletedStep)

\* one module initialized, polled and shut down in any order
SpecModules == HardwareInit /\ [][NextModules]_vars

\* ================================================================ claims
\* ---------------------------------------------------- cooking session
NumSteps == Len(instructions)
Advanced == lastCall.op = "nextStep" /\ lastCall.error = "none"
IsPrefix(a, b) == Len(a) <= Len(b) /\ SubSeq(b, 1, Len(a)) = a

\* C1: once a session is Completed or Aborted no operation changes its status or
\* its step index (abort included: it must not turn Completed into Aborted).
C1_TerminalIsFinal ==
  [][(status \in Terminal) => (status' = status /\ currentStep' = currentStep)]_vars

\* C2 as stated: on a recipe of K >= 1 instructions the K-th successful advance
\* leaves the session Completed with K timing records.
C2_CompletedAfterKAdvances ==
  (Advanced /\ NumSteps >= 1 /\ advances = NumSteps)
    => (status = "completed" /\ Len(stepTimings) = NumSteps)

\* C2 amended: on a recipe of K >= 1 instructions the session is Completed, with
\* exactly K timing records, after exactly K+1 successful advances: the advance made
\* when the step index already equals K is the one that completes; the first K
\* advances leave it in progress.
C2_CompletedAfterKPlusOneAdvances ==
  (Advanced /\ NumSteps >= 1)
    => /\ advances = NumSteps + 1 => (status = "completed" /\ Len(stepTimings) = NumSteps)
       /\ advances <= NumSteps => (status = "in_progress" /\ completions = 0)
       /\ advances <= NumSteps + 1

C2_Witness ==
  /\ Advanced /\ NumSteps >= 1 /\ advances = NumSteps + 1
  /\ status = "completed" /\ Len(stepTimings) = NumSteps

\* C3: on a recipe of K instructions the first K successful advances return the
\* step info of steps 1..K and leave the session in progress; the (K+1)-th returns
\* the Completed summary holding exactly K timing records.
C3_AdvanceReturns ==
  Advanced =>
    IF advances <= NumSteps
    THEN /\ lastCall.kind = "stepInfo" /\ lastCall.step = advances
         /\ status = "in_progress"
    ELSE /\ advances = NumSteps + 1
         /\ lastCall.kind = "completed" /\ Len(lastCall.timings) = NumSteps
         /\ status = "completed"

C3_Witness ==
  /\ NumSteps = 2 /\ advances = 3 /\ Advanced
  /\ lastCall.kind = "completed" /\ Len(lastCall.timings) = 2

\* C4 as stated: after N successful advances the step index is N, and the session
\* completes at most once.
C4_StepIndexIsAdvanceCount == currentStep = advances /\ completions <= 1

\* C4 amended: after N successful advances the step index is min(N, K); the advance
\* made at step index K completes the session, exactly once; an advance after
\* Completed fails and changes neither the step index nor the timing records.
C4_StepIndexIsCappedAdvanceCount ==
  [][/\ currentStep' = Min(advances', NumSteps)
     /\ completions' = (IF advances' = NumSteps + 1 THEN 1 ELSE 0)
     /\ (status = "completed" /\ lastCall'.op = "nextStep")
          => /\ lastCall'.error = "CookingProcessError"
             /\ status' = "completed"
             /\ currentStep' = currentStep /\ stepTimings' = stepTimings
             /\ advances' = advances /\ completions' = completions]_vars

C4_Witness ==
  /\ status = "completed" /\ NumSteps >= 1 /\ currentStep = NumSteps
  /\ lastCall.op = "nextStep" /\ lastCall.error = "CookingProcessError"

\* C5: nextStep on a session that is not in progress throws CookingProcessError and
\* leaves the status, the step index and the timing records unchanged.
C5_AdvanceNeedsInProgress ==
  [][(lastCall'.op = "nextStep" /\ status # "in_progress")
       => /\ lastCall'.error = "CookingProcessError"
          /\ status' = status /\ currentStep' = currentStep
          /\ stepTimings' = stepTimings]_vars

C5_Witness ==
  /\ lastCall.op = "nextStep" /\ lastCall.error = "CookingProcessError"
  /\ status = "paused" /\ currentStep >= 1

\* C6: the step index stays within 0..instructions.length, the empty recipe included.
C6_StepIndexInRange == 0 <= currentStep /\ currentStep <= NumSteps

C6_Witness ==
  /\ NumSteps >= 2 /\ currentStep = NumSteps
  /\ status = "completed" /\ sensorData # <<>>

\* C7: start succeeds only from initialized, pause only from in_progress, resume
\* only from paused; a rejected call throws CookingProcessError and leaves the
\* status and the step index unchanged.
C7_TransitionGuards ==
  [][/\ lastCall'.op = "start" =>
          IF status = "initialized"
          THEN lastCall'.error = "none" /\ status' = "in_progress"
          ELSE lastCall'.error = "CookingProcessError" /\ status' = status
     /\ lastCall'.op = "pause" =>
          IF status = "in_progress"
          THEN lastCall'.error = "none" /\ status' = "paused"
          ELSE lastCall'.error = "CookingProcessError" /\ status' = status
     /\ lastCall'.op = "resume" =>
          IF status = "paused"
          THEN lastCall'.error = "none" /\ status' = "in_progress"
          ELSE lastCall'.error = "CookingProcessError" /\ status' = status
     /\ lastCall'.op \in {"start", "pause", "resume"} => currentStep' = currentStep]_vars

C7_Witness ==
  /\ lastCall.op = "pause" /\ lastCall.error = "CookingProcessError"
  /\ status = "initialized"

\* C8: abort(reason) in a non-terminal state sets the status to aborted, appends
\* exactly one abort entry carrying the reason, and leaves the step index, the
\* timing records and the sensor log unchanged.
C8_AbortFrame ==
  [][(lastCall'.op = "abort" /\ status \notin Terminal)
       => /\ status' = "aborted"
          /\ Len(errors') = Len(errors) + 1 /\ IsPrefix(errors, errors')
          /\ errors'[Len(errors')].type = "session_aborted"
          /\ errors'[Len(errors')].message =
               (IF lastCall'.args[1] = Undefined THEN "User cancelled"
                ELSE lastCall'.args[1])
          /\ currentStep' = currentStep /\ stepTimings' = stepTimings
          /\ sensorData' = sensorData]_vars

C8_Witness ==
  /\ lastCall.op = "abort" /\ lastCall.args = <<"burnt">>
  /\ status = "aborted" /\ Len(errors) = 1 /\ errors[1].message = "burnt"
  /\ currentStep >= 1 /\ sensorData # <<>>

Recorded == distCall.op \in {"profile.recordConsumption", "recordConsumption"}
\* the ingredients whose current portion differs between two portion maps
ChangedPortions(old, new) ==
  {i \in DOMAIN old \cup DOMAIN new :
     ~(i \in DOMAIN old /\ i \in DOMAIN new /\ old[i] = new[i])}

C11_UnapprovedApplyFails ==
  [][(/\ distCall'.op = "applyPortionAdjustment"
      /\ distCall'.args[1] = ProfileUser
      /\ consultationRequired
      /\ ~distCall'.args[4])
       => /\ distCall'.error = ConsultationRequiredError
          /\ currentPortions' = currentPortions
          /\ appliedLog' = appliedLog]_vars

\* an unapproved adjust call was refused on a profile that requires consultation and
\* already holds a portion for the ingredient
C11_Witness ==
  /\ consultationRequired
  /\ distCall.op = "applyPortionAdjustment"
  /\ distCall.args = <<ProfileUser, "lettuce", 50000, FALSE>>
  /\ distCall.error = ConsultationRequiredError
  /\ "lettuce" \in DOMAIN currentPortions /\ currentPortions["lettuce"] = 80000

\* ------------------------------------------------- rolling waste window
\* the waste percentages of the records of one ingredient, oldest first
RECURSIVE WasteOf(_, _)
WasteOf(history, ing) ==
  IF history = <<>> THEN <<>>
  ELSE LET r == Head(history)
       IN (IF r.ingredient = ing THEN <<r.wastePercentage>> ELSE <<>>)
            \o WasteOf(Tail(history), ing)

RecordedIngredients == {portionHistory[k].ingredient : k \in 1..Len(portionHistory)}

\* C12: the rolling waste window of every ingredient holds at most 30 entries and
\* is, in order, the waste percentages of the ingredient's most recent min(n, 30)
\* records: the 31st record evicts the 1st, records of other ingredients evict and
\* reorder nothing.
C12_WindowIsLastThirty ==
  /\ DOMAIN wasteTracking = RecordedIngredients
  /\ \A i \in DOMAIN wasteTracking :
       LET all == WasteOf(portionHistory, i)
           n == Len(all)
           kept == IF n < 30 THEN n ELSE 30
       IN /\ Len(wasteTracking[i]) <= 30
          /\ wasteTracking[i] = SubSeq(all, n - kept + 1, n)

\* lettuce has 31 records, the first with another waste than the second, a record
\* of herbs lies between them: the window lost the first and only the first
C12_Witness ==
  /\ Len(WasteOf(portionHistory, "lettuce")) = 31
  /\ Len(WasteOf(portionHistory, "herbs")) >= 1
  /\ portionHistory[1].ingredient = "lettuce" /\ portionHistory[1].wastePercentage = 3000
  /\ portionHistory[2].ingredient = "herbs"
  /\ portionHistory[3].ingredient = "lettuce" /\ portionHistory[3].wastePercentage = 1000
  /\ Len(wasteTracking["lettuce"]) = 30
  /\ wasteTracking["lettuce"][1] = 1000
  /\ Len(wasteTracking["herbs"]) = Len(WasteOf(portionHistory, "herbs"))

\* -------------------------------------------------- adjustment suggestions
\* the ingredient a recordConsumption call was made for
RecordedIngredient(call) ==
  IF call.op = "recordConsumption" THEN call.args[2] ELSE call.args[1]

\* the sum of the last five entries of a window exceeds five times 15 %
FiveOverThreshold(window) ==
  /\ Len(window) >= 5
  /\ window[Len(window)] + window[Len(window) - 1] + window[Len(window) - 2]
       + window[Len(window) - 3] + window[Len(window) - 4] > 5 * 1500

\* C13: a recordConsumption call, on the profile or through the service, produces
\* a portion-adjustment suggestion for its ingredient exactly when the ingredient
\* then has at least 5 window entries and the mean of the 5 most recent exceeds 15 %.
C13_SuggestionIffFiveOverThreshold ==
  [][(/\ distCall'.op \in {"profile.recordConsumption", "recordConsumption"}
      /\ distCall'.error = "none")
       => LET i == RecordedIngredient(distCall')
          IN /\ \A k \in 1..Len(distCall'.suggestions) :
                  distCall'.suggestions[k].ingredient = i
             /\ distCall'.suggestions # <<>> <=> FiveOverThreshold(wasteTracking'[i])]_vars

\* the suggestions the last step's call returned
Suggested == {distCall.suggestions[k] : k \in 1..Len(distCall.suggestions)}

\* C14: the reduction a suggestion proposes never exceeds maxAdjustmentPerCycle of
\* the current portion, whatever the current portion, the waste percentage and the
\* adjustment settings.
C14_ReductionWithinMaxAdjustment ==
  \A s \in Suggested : s.reduction * 100 <= maxAdjustmentPerCycle * s.currentPortion

\* C15: the portion a suggestion proposes is never below half of the (positive)
\* current portion, whatever the waste percentage and the adjustment settings.
C15_SuggestedAtLeastHalf ==
  \A s \in Suggested :
     /\ s.currentPortion > 0
     /\ 2 * s.suggestedPortion >= s.currentPortion
     /\ s.reduction = s.currentPortion - s.suggestedPortion

\* the floor is what decided: 100 % waste at learningRate 2.0 would take the 50 g
\* portion below zero, the suggestion is 25 g
C15_Witness ==
  /\ distCall.op = "suggestPortionAdjustment"
  /\ learningRate = 200 /\ distCall.args = <<"lettuce", 10000>>
  /\ \E s \in Suggested : s.currentPortion = 50000 /\ s.suggestedPortion = 25000

\* --------------------------------------------------- consumption records
\* C16: recordConsumption appends one record that stores the served and consumed
\* values it was given, wasteAmount = served - consumed and wastePercentage =
\* (served - consumed) / served * 100 (here in 1/100 %), and appends that same
\* percentage to the ingredient's rolling window.
C16_RecordStoresWaste ==
  [][(distCall'.op = "profile.recordConsumption")
       => LET ing == distCall'.args[1]
              served == distCall'.args[2]
              consumed == distCall'.args[3]
              r == portionHistory'[Len(portionHistory')]
              window == wasteTracking'[ing]
          IN /\ Len(portionHistory') = Len(portionHistory) + 1
             /\ SubSeq(portionHistory', 1, Len(portionHistory)) = portionHistory
             /\ r.ingredient = ing
             /\ r.portionServed = served /\ r.portionConsumed = consumed
             /\ r.wasteAmount = served - consumed
             /\ r.wastePercentage * served = (served - consumed) * 100 * 100
             /\ window[Len(window)] = r.wastePercentage]_vars

\* 45 g of 50 g of herbs were consumed: 5 g and 10 % waste, after records of lettuce
C16_Witness ==
  /\ distCall.op = "profile.recordConsumption" /\ distCall.args = <<"herbs", 50, 45>>
  /\ Len(portionHistory) >= 2
  /\ portionHistory[1].ingredient = "lettuce"
  /\ LET r == portionHistory[Len(portionHistory)]
     IN r.wasteAmount = 5 /\ r.wastePercentage = 1000
  /\ wasteTracking["herbs"] = <<1000>>

\* ------------------------------------------------------- unknown users
\* C17: recordConsumption, importSupermarketData and generateDistributionSchedule
\* called for a user id without a consumption profile throw a not-found error and
\* change nothing: no profile, no record, no window entry, no portion, no pending
\* adjustment, no schedule, no container.
C17_UnknownUserChangesNothing ==
  [][(/\ distCall'.op \in {"recordConsumption", "importSupermarketData",
                           "generateDistributionSchedule"}
      /\ distCall'.args[1] \notin consumptionProfiles)
       => /\ distCall'.error = "Profile not found"
          /\ UNCHANGED <<settings, portionHistory, currentPortions, wasteTracking,
                         pendingAdjustments, distributionSchedule, reusableContainers,
                         appliedLog>>]_vars

\* a record for the unknown user was refused after ProfileUser got records, a
\* schedule and a container
C17_Witness ==
  /\ distCall.op = "recordConsumption" /\ distCall.args[1] = "user_404"
  /\ distCall.error = "Profile not found"
  /\ portionHistory # <<>> /\ distributionSchedule.generated /\ reusableContainers # <<>>

\* ----------------------------------------------------------- rate limits
\* C18: the classes of endpoints have limits of their own: requests to other classes
\* never count against the cooking quota, so the first cooking request a client
\* ever sends (no cooking request in the last 5 minutes) is not rejected.
C18_ClassesAreIndependent ==
  [][(/\ rateCall'.op = "rateLimiter"
      /\ rateCall'.class = "cooking"
      /\ "cooking" \notin usedClasses)
       => rateCall'.status = 200 /\ rateCall'.passed]_vars

\* C19: once the advertised reset time of a client's window is reached, the
\* client's next request starts a new window with count 1 and is admitted.
C19_ResetsAtAdvertisedTime ==
  [][\A ip \in ClientIPs :
       (/\ rateCall'.op = "limiter"
        /\ ip \in DOMAIN rateLimitStore
        /\ rateClock >= rateLimitStore[ip].resetTime)
         => /\ rateLimitStore'[ip].count = 1
            /\ rateLimitStore'[ip].firstRequest = rateClock
            /\ rateCall'.status = 200]_vars

\* the requests the limiter under test admitted in the window begun at time w
AdmittedIn(log, w) == {k \in 1..Len(log) : log[k].window = w}

\* C20 as stated: the limiter under test never admits more than max requests of
\* the client within a time interval of length windowMs.
C20_AtMostMaxInAnyInterval ==
  \A i, j \in 1..Len(admitted) :
     j - i >= limiter.max => admitted[j].at - admitted[i].at >= limiter.windowMs

\* C20 amended: the limiter counts in fixed windows.  A window begins with the
\* request that finds no current entry and lasts at least windowMs; of the requests
\* counted in one window at most max are admitted, and each request counted beyond
\* max is answered 429 with a retryAfter and is not passed on.
C20_AtMostMaxPerWindow ==
  [][(rateCall'.op = "limiter")
       => /\ \A k \in 1..Len(admitted') :
               Cardinality(AdmittedIn(admitted', admitted'[k].window)) <= limiter.max
          /\ \A k, l \in 1..Len(admitted') :
               (k < l /\ admitted'[k].window # admitted'[l].window)
                 => admitted'[l].window >= admitted'[k].window + limiter.windowMs
          /\ rateCall'.count > limiter.max
               => /\ rateCall'.status = 429 /\ ~rateCall'.passed
                  /\ rateCall'.retryAfter # Null
                  /\ admitted' = admitted
          /\ rateCall'.count <= limiter.max
               => /\ rateCall'.status = 200 /\ rateCall'.passed
                  /\ admitted' = Append(admitted, [at |-> rateClock,
                                                   window |-> rateCall'.window])]_vars

\* 2 requests per 2 minutes: the third request of the second window is refused,
\* after two were admitted in the first window and two in the second
C20_Witness ==
  /\ limiter = [windowMs |-> 2 * MsPerMinute, max |-> 2]
  /\ rateCall.op = "limiter" /\ rateCall.status = 429 /\ rateCall.count = 3
  /\ Len(admitted) = 4
  /\ admitted[1].window = 0 /\ admitted[2].window = 0
  /\ admitted[3].window = rateCall.window /\ admitted[4].window = rateCall.window
  /\ rateCall.window > 0

\* ----------------------------------------------------------------- recipes
\* C21: scaleServings(n) with n > 0 multiplies every ingredient amount and every
\* nutrition value by n / (previous servings) and sets servings to n, so that
\* scaling to n and then back to the servings before restores the amounts and the
\* nutrition values; with n <= 0 it throws 'Servings must be greater than 0' and
\* leaves servings, ingredients and nutrition unchanged.
C21_ScalingRestoresAmounts ==
  [][recipeCall'.op = "scaleServings"
       => LET n == recipeCall'.args[1]
              factor == Quotient(n, recipe.servings)
          IN IF n > 0
             THEN /\ recipeCall'.error = "none"
                  /\ recipe'.servings = n
                  /\ \A k \in DOMAIN recipe.ingredients :
                       recipe'.ingredients[k].amount
                         = Times(recipe.ingredients[k].amount, factor)
                  /\ \A key \in DOMAIN recipe.nutrition :
                       recipe'.nutrition[key] = Times(recipe.nutrition[key], factor)
                  /\ (Len(scaled) >= 2 /\ scaled[Len(scaled) - 1].servings = n)
                       => recipe' = scaled[Len(scaled) - 1]
             ELSE /\ recipeCall'.error = "Servings must be greater than 0"
                  /\ recipe' = recipe]_vars

\* ---------------------------------------------------------- growing cycles
\* C22: a growing module never holds more than maxConcurrentCycles active cycles:
\* startGrowingCycle at capacity throws 'Maximum concurrent growing cycles reached'
\* and leaves activeCycles unchanged; harvestCycle removes exactly the named cycle,
\* and fails and removes nothing for an unknown or already harvested id; after a
\* harvest a new cycle can be started.
C22_NeverOverCapacity ==
  [][/\ Len(growingModule'.activeCycles) <= growingModule'.maxConcurrentCycles
     /\ growCall'.op = "startGrowingCycle"
          => IF Len(growingModule.activeCycles) >= growingModule.maxConcurrentCycles
             THEN /\ growCall'.error = "Maximum concurrent growing cycles reached"
                  /\ growingModule'.activeCycles = growingModule.activeCycles
             ELSE /\ growCall'.error = "none"
                  /\ Len(growingModule'.activeCycles) = Len(growingModule.activeCycles) + 1
     /\ growCall'.op = "harvestCycle"
          => LET id == growCall'.args[1]
                 ids(cycles) == {cycles[k].id : k \in DOMAIN cycles}
                 others(cycles) == SelectSeq(cycles, LAMBDA c : c.id # id)
             IN IF id \in ids(growingModule.activeCycles)
                THEN /\ growCall'.error = "none"
                     /\ growingModule'.activeCycles = others(growingModule.activeCycles)
                     /\ id \notin ids(growingModule'.activeCycles)
                ELSE /\ growCall'.error = "Growing cycle not found"
                     /\ growingModule'.activeCycles = growingModule.activeCycles]_vars

\* ------------------------------------------------------- container returns
\* C23: processContainerReturn increments the container's timesReused and the
\* service's containersReused by exactly one; a container returned in 'good'
\* condition that has then been reused fewer than 100 times is put into 'cleaning',
\* every other one (another condition, or the 100th reuse) is set to 'retired'; a
\* container in 'cleaning' eventually becomes 'available', when its timer fires.
C23_ReturnCleansOrRetires ==
  /\ [][(distCall'.op = "processContainerReturn" /\ distCall'.error = "none")
          => LET id == distCall'.args[1]
                 before == reusableContainers[id]
                 after == reusableContainers'[id]
             IN /\ after.timesReused = before.timesReused + 1
                /\ containersReused' = containersReused + 1
                /\ after.status = (IF distCall'.args[2] = "good" /\ after.timesReused < 100
                                   THEN "cleaning" ELSE "retired")]_vars
  /\ \A id \in ContainerIds :
       (id \in DOMAIN reusableContainers /\ reusableContainers[id].status = "cleaning")
         ~> (id \in DOMAIN reusableContainers /\ reusableContainers[id].status = "available")

\* the container was cleaned 99 times and is retired by its 100th return, made in
\* good condition
C23_Witness ==
  /\ distCall.op = "processContainerReturn" /\ distCall.args = <<1, "good">>
  /\ reusableContainers # <<>>
  /\ reusableContainers[1].status = "retired" /\ reusableContainers[1].timesReused = 100
  /\ containersReused = 100 /\ cleaningTimers = <<>>

\* C26: a retired container stays retired: neither a later processContainerReturn
\* nor the callback of a cleaning timer set by an earlier return changes the status
\* of a retired container.
C26_RetiredStaysRetired ==
  [][\A id \in DOMAIN reusableContainers :
       reusableContainers[id].status = "retired"
         => reusableContainers'[id].status = "retired"]_vars

\* ------------------------------------------------------------ sensor polls
\* C24: a sensor is marked 'failed' exactly when it has produced 5 read errors in a
\* row: its errorCount is the number of errors since its last successful read (a
\* successful read resets it to 0, so that shorter runs of errors separated by a
\* success never mark it failed), and in a poll the count, the status and the stored
\* reading of a sensor change by the outcome of its own read only.
C24_FailedAfterFiveErrors ==
  [][LET Sensors == IF ModuleId \in DOMAIN connectedDevices
                    THEN connectedDevices[ModuleId].sensors ELSE EmptyMap
         errorRun(log) == CHOOSE k \in 0..Len(log) :
                            /\ \A i \in (Len(log) - k + 1)..Len(log) : log[i] = "error"
                            /\ k < Len(log) => log[Len(log) - k] = "ok"
         hasRun(log) == \E i \in 1..Len(log) :
                          /\ i + 4 <= Len(log)
                          /\ \A j \in i..(i + 4) : log[j] = "error"
         counted == \A id \in DOMAIN Sensors :
                      /\ Sensors[id].errorCount = errorRun(readLog[id])
                      /\ Sensors[id].status = "failed" <=> hasRun(readLog[id])
     IN /\ counted'
        /\ hwCall'.op = "pollAllSensors"
             => \A id \in DOMAIN Sensors :
                  LET before == Sensors[id]
                      after == connectedDevices'[ModuleId].sensors[id]
                  IN IF hwCall'.result[id] = "ok"
                     THEN /\ after.errorCount = 0
                          /\ after.status = before.status
                          /\ after.lastReading = polls'
                     ELSE /\ after.errorCount = before.errorCount + 1
                          /\ after.lastReading = before.lastReading
                          /\ after.status = (IF after.errorCount >= 5 THEN "failed"
                                             ELSE before.status)]_vars

\* the first sensor was read with four errors, then with success; the second failed
\* at its fifth error in the same polls and does so still
C24_Witness ==
  /\ hwCall.op = "pollAllSensors" /\ polls = 6
  /\ DOMAIN readLog = {"s1", "s2"}
  /\ readLog["s1"] = <<"error", "error", "error", "error", "ok", "error">>
  /\ readLog["s2"] = <<"error", "error", "error", "error", "error", "error">>
  /\ connectedDevices[ModuleId].sensors["s1"].status = "connected"
  /\ connectedDevices[ModuleId].sensors["s1"].lastReading = 5
  /\ connectedDevices[ModuleId].sensors["s2"].status = "failed"
  /\ connectedDevices[ModuleId].sensors["s2"].lastReading = Null

\* ---------------------------------------------------------- timing records
\* C25: a cooking session has as many timing records as its step index says; every
\* timing record but the one of the step started last has an end time and an actual
\* duration, and in a completed session every record has them.  pause and resume
\* leave the timing records and the step index as they are.
C25_TimingRecordsFollowSteps ==
  /\ [](/\ Len(stepTimings) = currentStep
        /\ \A k \in DOMAIN stepTimings :
             (k < Len(stepTimings) \/ status = "completed")
               => stepTimings[k].endTime # Null /\ stepTimings[k].actualDuration # Null)
  /\ [][lastCall'.op \in {"pause", "resume"}
          => stepTimings' = stepTimings /\ currentStep' = currentStep]_vars

\* a session paused and resumed in its second step: the first record is closed, the
\* second is open
C25_Witness ==
  /\ lastCall.op = "resume" /\ status = "in_progress"
  /\ currentStep = 2 /\ Len(stepTimings) = 2
  /\ stepTimings[1].endTime # Null /\ stepTimings[2].endTime = Null

\* ------------------------------------------- schedule and late adjustments
\* C27: when a recordConsumption call of the service has returned and the
\* handleAutomaticAdjustment it started has run to its end, the schedule stored for
\* the user is the one generated from the user's current portions: no adjustment is
\* applied after the schedule was regenerated.
C27_ScheduleFromFinalPortions ==
  (/\ distCall.op \in {"recordConsumption", "handleAutomaticAdjustment"}
   /\ distCall.error = "none"
   /\ pendingAdjustments = <<>>)
    => distributionSchedule.totalIngredients = TotalIngredients(currentPortions, ScheduleDays)

\* -------------------------------------------------------- cleanup of the store
\* C28: the cleanup timer deletes only entries that every limiter treats as expired,
\* so that every request is admitted or rejected as it would be had cleanup never
\* run.
C28_CleanupChangesNoDecision ==
  [][/\ rateCall'.op = "cleanup"
          => \A k \in DOMAIN rateLimitStore \ DOMAIN rateLimitStore' :
               \A options \in {generalLimiter, strictLimiter, recipeCreationLimiter,
                               cookingLimiter, searchLimiter, uploadLimiter,
                               healthCheckLimiter} :
                 WindowOver(rateLimitStore[k], rateClock, options.windowMs)
     /\ (rateCall'.op = "rateLimiter" /\ rateCall'.class # "internal")
          => \A k \in DOMAIN uncleanedStore' :
               (k \notin DOMAIN uncleanedStore \/ uncleanedStore'[k] # uncleanedStore[k])
                 => rateCall'.passed
                      = ~LimitExceeded(uncleanedStore'[k].count, rateCall'.limit)]_vars

\* -------------------------------------------------------------- robot tasks
\* C29: every task assignRobotTask accepts is executed in the end: the task given
\* to an idle robot becomes its current task, executing; the task given to a busy
\* robot is appended to the robot's queue, its reported position is the length of
\* the queue, and the current task is left as it is; and every queued task is in
\* the end taken from the queue and started, first in, first out.
C29_QueuedTasksAreExecuted ==
  /\ [][(hwCall'.op = "assignRobotTask" /\ hwCall'.error = "none")
          => LET id == hwCall'.args[1]
                 before == connectedDevices[ModuleId].robots[id]
                 after == connectedDevices'[ModuleId].robots[id]
             IN IF Busy(before)
                THEN /\ after.taskQueue = Append(before.taskQueue, hwCall'.args[2])
                     /\ hwCall'.result.status = "queued"
                     /\ hwCall'.result.queuePosition = Len(after.taskQueue)
                     /\ after.currentTask = before.currentTask
                ELSE /\ after.currentTask.type = hwCall'.args[2].type
                     /\ after.currentTask.status = "executing"
                     /\ hwCall'.result.status = "executing"
                     /\ after.taskQueue = before.taskQueue]_vars
  /\ \A c \in RobotConfigs, task \in Tasks :
       (LET robots == ModuleHardware(connectedDevices).robots
        IN /\ c.id \in DOMAIN robots
           /\ robots[c.id].taskQueue # <<>>
           /\ Head(robots[c.id].taskQueue) = task)
         ~> (LET robots == ModuleHardware(connectedDevices).robots
             IN /\ c.id \in DOMAIN robots
                /\ robots[c.id].currentTask.type = task.type
                /\ robots[c.id].currentTask.status = "executing")

\* ------------------------------------------------- modules and their timers
\* C30: after a successful initializeModule the devices registered for the module
\* are the sensors, actuators and robots of the configuration, as many as
\* devicesInitialized says; one polling timer runs for the module, the one
\* activePolling holds (to initialize again replaces it); a poll that follows reads
\* the sensors of the configuration; and shutdownModule clears the timer and removes
\* the devices and the readings of the module.
C30_ModuleDevicesAndTimer ==
  [][LET ids(list) == {list[k].id : k \in DOMAIN list}
         config == hwCall'.args[1]
         module == connectedDevices'[ModuleId]
     IN /\ (hwCall'.op = "initializeModule" /\ hwCall'.error = "none")
             => /\ DOMAIN module.sensors = ids(config.sensors)
                /\ DOMAIN module.actuators = ids(config.actuators)
                /\ DOMAIN module.robots = ids(config.robots)
                /\ hwCall'.result.sensors = Cardinality(DOMAIN module.sensors)
                /\ hwCall'.result.actuators = Cardinality(DOMAIN module.actuators)
                /\ hwCall'.result.robots = Cardinality(DOMAIN module.robots)
                /\ intervals' = {activePolling'[ModuleId]}
        /\ (hwCall.op = "initializeModule" /\ hwCall.error = "none"
              /\ hwCall'.op = "pollAllSensors" /\ simulationMode)
             => sensorReadings'[ModuleId].readings
                  = {hwCall.args[1].sensors[k].type : k \in DOMAIN hwCall.args[1].sensors}
        /\ hwCall'.op = "shutdownModule"
             => /\ intervals' = {}
                /\ ModuleId \notin DOMAIN activePolling'
                /\ ModuleId \notin DOMAIN connectedDevices'
                /\ ModuleId \notin DOMAIN sensorReadings']_vars

====
